---------------------------- MODULE Spec2Model ----------------------------
(***************************************************************************)
(* A model of the FlipFlop circuit editor core: the tile topology          *)
(* (Circuit), the cluster allocator and flip/flop registry (Simulation)    *)
(* and the handle arena (Depot).  Every operator is a translation of the   *)
(* Rust function of the same name; a Rust `Option` is a sequence of length *)
(* zero (None) or one (Some), a `Vec` is a sequence, a `HashMap` is a      *)
(* function whose DOMAIN is the key set.  A Rust panic (assert!, unwrap,   *)
(* unreachable!, a failed Depot lookup) sets the flag `panicked`.          *)
(***************************************************************************)
EXTENDS Integers, Sequences, FiniteSets, TLC

VARIABLES
    tiles,        \* Circuit.tiles: HashMap<IVec2, Tile>
    components,   \* Circuit.components: Depot<Component>
    wires,        \* Circuit.wires: Depot<Wire>
    simulation,   \* Circuit.simulation: Simulation
    next_handle,  \* depot::NEXT_HANDLE
    panicked,     \* a panic has aborted the program
    last,         \* the public call made last: its name, its result, what it did
    trip,         \* progress of the place_wire / delete_all_at round trip
    nops,         \* the number of public calls made so far
    scene,        \* progress of the calls of the simulation tests
    manager,      \* an InstanceManager<T>
    handles,      \* the instance::Handle<T>s given out and instance::NEXT_HANDLE
    cursor        \* a CursorManager

vars ==
    <<tiles, components, wires, simulation, next_handle, panicked, last, trip, nops, scene,
      manager, handles, cursor>>

(***************************************************************************)
(* Option<T>                                                               *)
(***************************************************************************)
None == <<>>
Some(x) == <<x>>
is_some(o) == o # <<>>
unwrap(o) == o[1]

(***************************************************************************)
(* direction.rs                                                            *)
(***************************************************************************)
Directions == {"East", "North", "West", "South"}
Relatives == {"Same", "Opposite", "Right", "Left"}

rotate(self, relative) ==
    CASE relative = "Same" -> self
      [] relative = "Opposite" ->
            (CASE self = "East" -> "West" [] self = "North" -> "South"
               [] self = "West" -> "East" [] OTHER -> "North")
      [] relative = "Right" ->
            (CASE self = "East" -> "South" [] self = "North" -> "East"
               [] self = "West" -> "North" [] OTHER -> "West")
      [] OTHER ->
            (CASE self = "East" -> "North" [] self = "North" -> "West"
               [] self = "West" -> "South" [] OTHER -> "East")

\* to with Right and Left exchanged
to_mirrored(self, other) ==
    CASE other = self -> "Same"
      [] other = rotate(self, "Opposite") -> "Opposite"
      [] other = rotate(self, "Right") -> "Left"
      [] OTHER -> "Right"

\* Direction::to, arm by arm
to(self, other) ==
    CASE <<self, other>> \in {<<"East", "East">>, <<"North", "North">>,
                              <<"West", "West">>, <<"South", "South">>} -> "Same"
      [] <<self, other>> \in {<<"East", "West">>, <<"North", "South">>,
                              <<"West", "East">>, <<"South", "North">>} -> "Opposite"
      [] <<self, other>> \in {<<"East", "South">>, <<"North", "East">>,
                              <<"West", "North">>, <<"South", "West">>} -> "Right"
      [] OTHER -> "Left"

opposite(self) == rotate(self, "Opposite")
left(self) == rotate(self, "Left")
right(self) == rotate(self, "Right")

(***************************************************************************)
(* IVec2 and the free functions at the end of circuit.rs                   *)
(***************************************************************************)
Abs(n) == IF n < 0 THEN -n ELSE n
Clamp1(n) == IF n < -1 THEN -1 ELSE IF n > 1 THEN 1 ELSE n

\* <[i32; 2]>::from(a) > <[i32; 2]>::from(b): x first, then y
LexGreater(a, b) == a[1] > b[1] \/ (a[1] = b[1] /\ a[2] > b[2])

wire_direction(start, end) ==
    IF start[1] = end[1]
    THEN (IF start[2] < end[2] THEN "North" ELSE "South")
    ELSE (IF start[1] < end[1] THEN "East" ELSE "West")

\* the tiles of the segment, in order from start to end
wire_tiles(start, end) ==
    LET dx == end[1] - start[1]
        dy == end[2] - start[2]
        len == Abs(dx) + Abs(dy)
    IN  [i \in 1..(len + 1) |->
            <<start[1] + Clamp1(dx) * (i - 1), start[2] + Clamp1(dy) * (i - 1)>>]

SeqToSet(s) == {s[i] : i \in 1..Len(s)}

(***************************************************************************)
(* simulation.rs                                                           *)
(***************************************************************************)
SimNew ==
    [num_clusters |-> 0, free_clusters |-> <<>>,
     is_powered |-> <<>>, was_powered |-> <<>>,
     flips |-> <<>>, flops |-> <<>>, manual_power |-> <<>>]

EmptyMap == <<>>

\* Vec indexing by a cluster id (ids count from 0, sequences from 1)
cluster_array_index(idx) == idx + 1

InBounds(sim, id) == id \in 0..(sim.num_clusters - 1)

\* alloc_cluster: the pair of the new Simulation and the id returned
alloc_cluster(sim) ==
    IF sim.free_clusters # <<>>
    THEN [sim |-> [sim EXCEPT !.free_clusters =
                        SubSeq(@, 1, Len(@) - 1)],
          id |-> sim.free_clusters[Len(sim.free_clusters)]]
    ELSE [sim |-> [sim EXCEPT !.num_clusters = @ + 1,
                              !.is_powered = Append(@, FALSE),
                              !.was_powered = Append(@, FALSE),
                              !.flips = Append(@, EmptyMap),
                              !.flops = Append(@, EmptyMap),
                              !.manual_power = Append(@, 0)],
          id |-> sim.num_clusters]

\* the three assert!s of free_cluster (and the bounds check of the indexing)
free_cluster_asserts(sim, id) ==
    /\ InBounds(sim, id)
    /\ DOMAIN sim.flips[cluster_array_index(id)] = {}
    /\ DOMAIN sim.flops[cluster_array_index(id)] = {}
    /\ sim.manual_power[cluster_array_index(id)] = 0

free_cluster(sim, id) ==
    [sim EXCEPT !.free_clusters = Append(@, id)]

\* *map.entry(inp).or_insert(0) += 1
MultisetAdd(map, inp) ==
    IF inp \in DOMAIN map
    THEN [map EXCEPT ![inp] = @ + 1]
    ELSE [k \in DOMAIN map \cup {inp} |-> IF k = inp THEN 1 ELSE map[k]]

\* *count -= 1; if *count == 0 { map.remove(&inp) }
MultisetRemove(map, inp) ==
    IF map[inp] - 1 = 0
    THEN (IF DOMAIN map = {inp} THEN EmptyMap
          ELSE [k \in DOMAIN map \ {inp} |-> map[k]])
    ELSE [map EXCEPT ![inp] = @ - 1]

\* add_flip that registers the source among the flops
add_flip_as_flop(sim, inp, out) ==
    [sim EXCEPT !.flops[cluster_array_index(out)] = MultisetAdd(@, inp)]

add_flip(sim, inp, out) ==
    [sim EXCEPT !.flips[cluster_array_index(out)] = MultisetAdd(@, inp)]

add_flop(sim, inp, out) ==
    [sim EXCEPT !.flops[cluster_array_index(out)] = MultisetAdd(@, inp)]

\* get_mut(&inp).unwrap() of remove_flip
remove_flip_unwrap(sim, inp, out) ==
    InBounds(sim, out) /\ inp \in DOMAIN sim.flips[cluster_array_index(out)]

remove_flip(sim, inp, out) ==
    [sim EXCEPT !.flips[cluster_array_index(out)] = MultisetRemove(@, inp)]

\* get_mut(&inp).unwrap() of remove_flop
remove_flop_unwrap(sim, inp, out) ==
    InBounds(sim, out) /\ inp \in DOMAIN sim.flops[cluster_array_index(out)]

remove_flop(sim, inp, out) ==
    [sim EXCEPT !.flops[cluster_array_index(out)] = MultisetRemove(@, inp)]

is_powered(sim, id) == sim.is_powered[cluster_array_index(id)]

set_powered(sim, id, powered) ==
    [sim EXCEPT !.is_powered[cluster_array_index(id)] = powered]

was_powered(sim, id) == sim.was_powered[cluster_array_index(id)]

\* manual_power is a Vec<u32>.  The model keeps the count as the integer z
\* that stands for the u32 value z mod 2^32: -1 is the value 2^32 - 1 that
\* `-= 1` leaves at 0 in a build without overflow checks.  For the counts
\* reached here (|z| < 2^31) the u32 value is > 0 exactly when z # 0.
manual_powered(sim, i) == sim.manual_power[cluster_array_index(i)] # 0

power(sim, id) ==
    [sim EXCEPT !.manual_power[cluster_array_index(id)] = @ + 1]

\* `self.manual_power[id] -= 1` at 0: a panic in a build with overflow
\* checks, a wrap to 2^32 - 1 in a build without
unpower_overflows(sim, id) == sim.manual_power[cluster_array_index(id)] = 0

unpower(sim, id) ==
    [sim EXCEPT !.manual_power[cluster_array_index(id)] = @ - 1]

\* the value tick computes for cluster i from the swapped vectors
\* tick_value that never looks at the manual power count
tick_value_no_manual(sim, i) ==
    \/ \E id \in DOMAIN sim.flips[cluster_array_index(i)] : ~was_powered(sim, id)
    \/ \E id \in DOMAIN sim.flops[cluster_array_index(i)] : was_powered(sim, id)

\* tick_value that skips the flips
tick_value_no_flips(sim, i) ==
    \/ manual_powered(sim, i)
    \/ \E id \in DOMAIN sim.flops[cluster_array_index(i)] : was_powered(sim, id)

\* tick_value that takes manual power on its rising edge only
tick_value_edge(sim, i) ==
    \/ manual_powered(sim, i) /\ ~was_powered(sim, i)
    \/ \E id \in DOMAIN sim.flips[cluster_array_index(i)] : ~was_powered(sim, id)
    \/ \E id \in DOMAIN sim.flops[cluster_array_index(i)] : was_powered(sim, id)

\* tick_value with Flops that invert like Flips
tick_value_flops_invert(sim, i) ==
    \/ manual_powered(sim, i)
    \/ \E id \in DOMAIN sim.flips[cluster_array_index(i)] : ~was_powered(sim, id)
    \/ \E id \in DOMAIN sim.flops[cluster_array_index(i)] : ~was_powered(sim, id)

tick_value(sim, i) ==
    \/ manual_powered(sim, i)
    \/ \E id \in DOMAIN sim.flips[cluster_array_index(i)] : ~was_powered(sim, id)
    \/ \E id \in DOMAIN sim.flops[cluster_array_index(i)] : was_powered(sim, id)

\* for i in 0..self.num_clusters { self.is_powered[i] = ... }
RECURSIVE tick_loop(_, _)
tick_loop(sim, i) ==
    IF i >= sim.num_clusters THEN sim
    ELSE tick_loop([sim EXCEPT !.is_powered[cluster_array_index(i)] = tick_value(sim, i)],
                   i + 1)

\* std::mem::swap(&mut self.is_powered, &mut self.was_powered)
\* swap_powered that leaves the two arrays where they are
swap_powered_none(sim) == sim

swap_powered(sim) ==
    [sim EXCEPT !.is_powered = sim.was_powered, !.was_powered = sim.is_powered]

\* tick without the snapshot: each cluster reads the values of this very pass
tick_value_in_place(sim, i) ==
    \/ manual_powered(sim, i)
    \/ \E id \in DOMAIN sim.flips[cluster_array_index(i)] : ~sim.is_powered[cluster_array_index(id)]
    \/ \E id \in DOMAIN sim.flops[cluster_array_index(i)] : sim.is_powered[cluster_array_index(id)]

RECURSIVE tick_loop_in_place(_, _)
tick_loop_in_place(sim, i) ==
    IF i >= sim.num_clusters THEN sim
    ELSE tick_loop_in_place(
            [sim EXCEPT !.is_powered[cluster_array_index(i)] = tick_value_in_place(sim, i)], i + 1)

tick_in_place(sim) == tick_loop_in_place([sim EXCEPT !.was_powered = sim.is_powered], 0)

\* tick that makes two passes
tick_twice(sim) == tick_loop(swap_powered(tick_loop(swap_powered(sim), 0)), 0)

tick(sim) == tick_loop(swap_powered(sim), 0)

(***************************************************************************)
(* depot.rs                                                                *)
(***************************************************************************)
DepotNew == <<>>

\* Handle::new that hands out the smallest id no depot holds at the moment
RECURSIVE first_unused(_, _)
first_unused(c, h) ==
    IF h \in DOMAIN c.wires \/ h \in DOMAIN c.components
    THEN first_unused(c, h + 1) ELSE h

HandleNewUnused(c) == first_unused(c, 0)

\* Handle::new(): NEXT_HANDLE.fetch_add(1); both depots of a Circuit draw
\* their handles from this one process-global counter
HandleNew(c) == c.next_handle

DepotValid(depot, handle) == handle \in DOMAIN depot

DepotInsert(depot, handle, item) ==
    [h \in DOMAIN depot \cup {handle} |-> IF h = handle THEN item ELSE depot[h]]

DepotRemove(depot, handle) ==
    IF DOMAIN depot = {handle} THEN DepotNew
    ELSE [h \in DOMAIN depot \ {handle} |-> depot[h]]

(***************************************************************************)
(* instance.rs: InstanceManager<T>, Update<T>, Handle<T>.  A wgpu::Buffer  *)
(* is its size in records; `written` is what queue.write_buffer put into   *)
(* it last; update_rx is the content of the mpsc channel.                  *)
(***************************************************************************)
InstanceManagerNew ==
    [buffer |-> None, buffer_capacity |-> 0, update_rx |-> <<>>,
     instances |-> <<>>, instance_to_handle |-> <<>>,
     handle_to_instance |-> EmptyMap, buffer_update |-> FALSE,
     written |-> <<>>, panicked |-> FALSE]

UpdateSet(handle, instance) == <<"Set", handle, instance>>
UpdateRemove(handle) == <<"Remove", handle>>

\* HashMap::insert and HashMap::remove
map_insert(map, key, value) ==
    [k \in DOMAIN map \cup {key} |-> IF k = key THEN value ELSE map[k]]

map_remove(map, key) ==
    IF DOMAIN map \subseteq {key} THEN EmptyMap
    ELSE [k \in DOMAIN map \ {key} |-> map[k]]

\* Vec::swap_remove (index counts from 0)
swap_remove(vec, index) ==
    IF index + 1 = Len(vec) THEN SubSeq(vec, 1, Len(vec) - 1)
    ELSE [SubSeq(vec, 1, Len(vec) - 1) EXCEPT ![index + 1] = vec[Len(vec)]]

len(m) == Len(m.instances)

\* set with the slot dropped: the value is written nowhere
set_append_only(m, handle, instance) ==
    IF handle \in DOMAIN m.handle_to_instance
    THEN [m EXCEPT !.buffer_update = TRUE]
    ELSE [m EXCEPT !.buffer_update = TRUE,
                   !.instances = Append(@, instance),
                   !.instance_to_handle = Append(@, handle),
                   !.handle_to_instance = map_insert(@, handle, Len(m.instances))]

set(m, handle, instance) ==
    IF handle \in DOMAIN m.handle_to_instance
    THEN (IF m.handle_to_instance[handle] >= Len(m.instances)
          THEN [m EXCEPT !.buffer_update = TRUE, !.panicked = TRUE]
          ELSE [m EXCEPT !.buffer_update = TRUE,
                         !.instances[m.handle_to_instance[handle] + 1] = instance])
    ELSE [m EXCEPT !.buffer_update = TRUE,
                   !.instances = Append(@, instance),
                   !.instance_to_handle = Append(@, handle),
                   !.handle_to_instance = map_insert(@, handle, Len(m.instances))]

\* handle_to_instance.remove(&handle).unwrap()
remove_unwrap(m, handle) == handle \in DOMAIN m.handle_to_instance

\* remove_moved without the rewrite of the moved entry
remove_moved_none(m, index) == m

\* if index != self.instances.len() { ... }: the entry swapped into `index`
remove_moved(m, index) ==
    IF index # Len(m.instances)
    THEN [m EXCEPT !.handle_to_instance =
                        map_insert(@, m.instance_to_handle[index + 1], index)]
    ELSE m

\* the two swap_removes and the debug_assert!, which only a build with
\* debug assertions checks
remove_at(m, handle, index, debug) ==
    IF index >= Len(m.instances) \/ index >= Len(m.instance_to_handle)
    THEN [m EXCEPT !.buffer_update = TRUE, !.panicked = TRUE]
    ELSE IF debug /\ m.instance_to_handle[index + 1] # handle
    THEN [m EXCEPT !.buffer_update = TRUE, !.panicked = TRUE]
    ELSE remove_moved([m EXCEPT !.buffer_update = TRUE,
                                !.handle_to_instance = map_remove(@, handle),
                                !.instances = swap_remove(@, index),
                                !.instance_to_handle = swap_remove(@, index)],
                      index)

remove(m, handle, debug) ==
    IF remove_unwrap(m, handle)
    THEN remove_at(m, handle, m.handle_to_instance[handle], debug)
    ELSE [m EXCEPT !.buffer_update = TRUE, !.panicked = TRUE]

\* match update { Set => set, Remove => remove }
apply_update(m, update, debug) ==
    IF update[1] = "Set" THEN set(m, update[2], update[3])
    ELSE remove(m, update[2], debug)

\* while let Ok(update) = self.update_rx.try_recv()
RECURSIVE handle_updates(_, _)
handle_updates(m, debug) ==
    IF m.panicked \/ m.update_rx = <<>> THEN m
    ELSE handle_updates(
            apply_update([m EXCEPT !.update_rx = Tail(@)], Head(m.update_rx), debug),
            debug)

\* usize::checked_next_power_of_two
RECURSIVE power_of_two_from(_, _)
power_of_two_from(p, n) == IF p >= n THEN p ELSE power_of_two_from(2 * p, n)

next_power_of_two(n) == power_of_two_from(1, n)

\* ensure_capacity that allocates exactly `cap` records
ensure_capacity_exact(m, cap) ==
    IF cap > m.buffer_capacity
    THEN [m EXCEPT !.buffer = Some(cap), !.buffer_capacity = cap]
    ELSE m

ensure_capacity(m, cap) ==
    IF cap > m.buffer_capacity
    THEN [m EXCEPT !.buffer = Some(next_power_of_two(cap)),
                   !.buffer_capacity = next_power_of_two(cap)]
    ELSE m

\* if let Some(buffer) = &self.buffer { queue.write_buffer(buffer, 0, ..) }
write_buffer(m) ==
    IF is_some(m.buffer) THEN [m EXCEPT !.written = m.instances] ELSE m

\* the part of buffer() after handle_updates
buffer_refill(m) ==
    IF ~m.panicked /\ m.buffer_update
    THEN write_buffer(ensure_capacity([m EXCEPT !.buffer_update = FALSE], len(m)))
    ELSE m

\* buffer(): the manager after the call; the value returned is its .buffer
buffer(m, debug) == buffer_refill(handle_updates(m, debug))

\* Handle::new, Handle::set and Drop, on the handles the program holds:
\* next is instance::NEXT_HANDLE, held the ids of the Handles alive, and
\* reference maps each of them to the value last set through it
HandlesNew == [next |-> 0, held |-> {}, reference |-> EmptyMap]

handle_new(hs, instance) ==
    [next |-> hs.next + 1, held |-> hs.held \cup {hs.next},
     reference |-> map_insert(hs.reference, hs.next, instance)]

handle_set(hs, id, instance) ==
    [hs EXCEPT !.reference = map_insert(@, id, instance)]

handle_drop(hs, id) ==
    [hs EXCEPT !.held = @ \ {id}, !.reference = map_remove(@, id)]

\* self.updates.send(update)
send(m, update) == [m EXCEPT !.update_rx = Append(@, update)]

\* insert(): Handle::new(self.update_tx.clone()), then handle.set(instance)
insert(m, id, instance) == send(m, UpdateSet(id, instance))

(***************************************************************************)
(* circuit.rs: Tile, TileWires, Component, Wire, GraphNode                 *)
(***************************************************************************)
TileWiresDefault == [east |-> None, north |-> None, west |-> None, south |-> None]

TileDefault == [component |-> None, crossover |-> FALSE, wires |-> TileWiresDefault]

\* TileWires::get
get(self, direction) ==
    CASE direction = "East" -> self.east
      [] direction = "North" -> self.north
      [] direction = "West" -> self.west
      [] OTHER -> self.south

\* *TileWires::get_mut(direction) = value
get_mut_assign(self, direction, value) ==
    CASE direction = "East" -> [self EXCEPT !.east = value]
      [] direction = "North" -> [self EXCEPT !.north = value]
      [] direction = "West" -> [self EXCEPT !.west = value]
      [] OTHER -> [self EXCEPT !.south = value]

\* TileWires::count
count(self) ==
      (IF is_some(self.east) THEN 1 ELSE 0)
    + (IF is_some(self.north) THEN 1 ELSE 0)
    + (IF is_some(self.west) /\ self.west # self.east THEN 1 ELSE 0)
    + (IF is_some(self.south) /\ self.south # self.north THEN 1 ELSE 0)

as_array(self) == <<self.east, self.north, self.west, self.south>>

\* an update_crossover that looks at the wire count only, not at the
\* component of the tile
update_crossover_wires_only(self) ==
    [self EXCEPT !.crossover = count(self.wires) >= 2]

\* Tile::update_crossover; the sprite handle is kept as "is there a sprite"
update_crossover(self) ==
    LET wire_count == count(self.wires)
    IN  IF is_some(self.component) \/ wire_count < 2
        THEN [self EXCEPT !.crossover = FALSE]
        ELSE IF wire_count >= 2 /\ ~self.crossover
             THEN [self EXCEPT !.crossover = TRUE]
             ELSE self

ComponentTypes == {"Pin", "Flip", "Flop"}

\* Component::get_type
get_type(component) == component.ty

\* Component::connection_type
connection_type(component, direction) ==
    CASE get_type(component) = "Pin" -> "Pin"
      [] get_type(component) = "Flip" ->
            (IF direction = component.orientation THEN "Output" ELSE "Pin")
      [] OTHER ->
            (IF direction = component.orientation THEN "Output" ELSE "SidePin")

WireNode(handle) == <<"Wire", handle>>
ComponentNode(handle, direction) == <<"Component", handle, direction>>
IsWireNode(node) == node[1] = "Wire"

\* Wire::direction
direction_of(wire) == wire_direction(wire.start, wire.end)

\* Wire::tiles
tiles_of(wire) == wire_tiles(wire.start, wire.end)

(***************************************************************************)
(* circuit.rs: Circuit.  `c` is the Circuit (with the handle counter and   *)
(* the panic flag): [tiles, components, wires, simulation, next_handle,    *)
(* panicked].                                                              *)
(***************************************************************************)
CircuitNew ==
    [tiles |-> <<>>, components |-> DepotNew, wires |-> DepotNew,
     simulation |-> SimNew, next_handle |-> 0, panicked |-> FALSE]

Panic(c) == [c EXCEPT !.panicked = TRUE]

\* Circuit::tile
tile(c, pos) == IF pos \in DOMAIN c.tiles THEN Some(c.tiles[pos]) ELSE None

\* self.tile(pos).and_then(|tile| tile.component)
tile_component(c, pos) ==
    IF pos \in DOMAIN c.tiles THEN c.tiles[pos].component ELSE None

\* self.tiles.entry(pos).or_default()
entry_or_default(c, pos) ==
    IF pos \in DOMAIN c.tiles THEN c
    ELSE [c EXCEPT !.tiles =
            [p \in DOMAIN c.tiles \cup {pos} |->
                IF p = pos THEN TileDefault ELSE c.tiles[p]]]

\* Circuit::cluster_id panics: a Depot lookup fails or a side face of a Flop
\* is asked for (unreachable!)
cluster_id_panics(c, node) ==
    IF IsWireNode(node)
    THEN ~DepotValid(c.wires, node[2])
    ELSE \/ ~DepotValid(c.components, node[2])
         \/ LET component == c.components[node[2]]
            IN  /\ get_type(component) = "Flop"
                /\ node[3] # component.orientation
                /\ node[3] # opposite(component.orientation)

\* Circuit::cluster_id
cluster_id(c, node) ==
    IF cluster_id_panics(c, node) THEN -1
    ELSE IF IsWireNode(node) THEN c.wires[node[2]].cluster_index
    ELSE LET component == c.components[node[2]]
             direction == node[3]
         IN  CASE get_type(component) = "Pin" -> component.state.cluster_index
               [] get_type(component) = "Flip" ->
                    (IF direction = component.orientation
                     THEN component.state.output_cluster_index
                     ELSE component.state.input_cluster_index)
               [] OTHER ->
                    (IF direction = component.orientation
                     THEN component.state.output_cluster_index
                     ELSE component.state.input_cluster_index)

\* Circuit::neighbors panics: a Depot lookup or a tile(..).unwrap() fails
neighbors_panics(c, node) ==
    IF IsWireNode(node)
    THEN \/ ~DepotValid(c.wires, node[2])
         \/ c.wires[node[2]].start \notin DOMAIN c.tiles
         \/ c.wires[node[2]].end \notin DOMAIN c.tiles
    ELSE \/ ~DepotValid(c.components, node[2])
         \/ c.components[node[2]].position \notin DOMAIN c.tiles

\* directions.iter().flat_map(|&dir| tile.wires.get(dir))
\*     .map(|wire_handle| GraphNode::Wire(wire_handle))
RECURSIVE WireNodesAt(_, _)
WireNodesAt(t, directions) ==
    IF directions = <<>> THEN <<>>
    ELSE (IF is_some(get(t.wires, Head(directions)))
          THEN <<WireNode(unwrap(get(t.wires, Head(directions))))>>
          ELSE <<>>)
         \o WireNodesAt(t, Tail(directions))

\* component.orientation.rotate(rel) for rel in component_relatives
Rotated(orientation, relatives) ==
    [i \in DOMAIN relatives |-> rotate(orientation, relatives[i])]

\* Circuit::neighbors: the nodes handed to the visitor, in order
neighbors(c, node) ==
    IF neighbors_panics(c, node) THEN <<>>
    ELSE IF IsWireNode(node)
    THEN LET wire == c.wires[node[2]]
             start_tile == c.tiles[wire.start]
             end_tile == c.tiles[wire.end]
         IN  (IF is_some(start_tile.component)
              THEN <<ComponentNode(unwrap(start_tile.component), direction_of(wire))>>
              ELSE <<>>)
             \o
             (IF is_some(end_tile.component)
              THEN <<ComponentNode(unwrap(end_tile.component),
                                   opposite(direction_of(wire)))>>
              ELSE <<>>)
    ELSE LET component == c.components[node[2]]
             direction == node[3]
             t == c.tiles[component.position]
         IN  CASE get_type(component) = "Pin" ->
                    WireNodesAt(t, Rotated(component.orientation,
                                           <<"Same", "Right", "Opposite", "Left">>))
               [] get_type(component) = "Flip" ->
                    (IF direction = component.orientation
                     THEN WireNodesAt(t, Rotated(component.orientation, <<"Same">>))
                     ELSE WireNodesAt(t, Rotated(component.orientation,
                                                 <<"Right", "Opposite", "Left">>)))
               [] OTHER -> WireNodesAt(t, <<direction>>)

\* Circuit::has_neighbors
has_neighbors(c, node) == neighbors(c, node) # <<>>

\* the visitor of cluster_of over the neighbors `nb` of one node:
\* if visited.insert(neighbor) { queue.push(neighbor) }
RECURSIVE visit_neighbors(_, _, _)
visit_neighbors(visited, queue, nb) ==
    IF nb = <<>> THEN [visited |-> visited, queue |-> queue]
    ELSE IF Head(nb) \in visited THEN visit_neighbors(visited, queue, Tail(nb))
    ELSE visit_neighbors(visited \cup {Head(nb)}, Append(queue, Head(nb)), Tail(nb))

\* the loop of cluster_of: while let Some(next) = queue.pop()
\* (`id` is the cluster id of the node the flood began at; in a debug build
\* debug_assert_eq!(self.cluster_id(&next), id) panics on any other)
RECURSIVE cluster_of_loop(_, _, _)
cluster_of_loop(c, vq, id) ==
    IF vq.queue = <<>> THEN [visited |-> vq.visited, panics |-> FALSE]
    ELSE IF cluster_id_panics(c, vq.queue[Len(vq.queue)])
            \/ cluster_id(c, vq.queue[Len(vq.queue)]) # id
            \/ neighbors_panics(c, vq.queue[Len(vq.queue)])
    THEN [visited |-> vq.visited, panics |-> TRUE]
    ELSE cluster_of_loop(c,
            visit_neighbors(vq.visited, SubSeq(vq.queue, 1, Len(vq.queue) - 1),
                            neighbors(c, vq.queue[Len(vq.queue)])), id)

\* Circuit::cluster_of: the set visited, and whether a lookup panicked or the
\* debug_assert_eq! on the cluster id of a visited node failed
cluster_of(c, node) ==
    IF cluster_id_panics(c, node) THEN [visited |-> {node}, panics |-> TRUE]
    ELSE cluster_of_loop(c, [visited |-> {node}, queue |-> <<node>>], cluster_id(c, node))

\* a relabelling that rewrites the cluster fields only, without moving the
\* Flip/Flop registration in the simulation (without lines 656-662, 669-675,
\* 682-688, 695-701)
relabel_fields_only(c, node, index) ==
    IF c.panicked THEN c
    ELSE IF IsWireNode(node)
    THEN (IF ~DepotValid(c.wires, node[2]) THEN Panic(c)
          ELSE [c EXCEPT !.wires[node[2]].cluster_index = index])
    ELSE IF ~DepotValid(c.components, node[2]) THEN Panic(c)
    ELSE IF get_type(c.components[node[2]]) = "Pin"
    THEN [c EXCEPT !.components[node[2]].state.cluster_index = index]
    ELSE IF node[3] = c.components[node[2]].orientation
    THEN [c EXCEPT !.components[node[2]].state.output_cluster_index = index]
    ELSE [c EXCEPT !.components[node[2]].state.input_cluster_index = index]

\* the body of the `for node in &cluster` loop shared by merge_clusters and
\* split_clusters: point one node at cluster `index`, re-registering a
\* Flip/Flop whose input or output cluster changes
relabel(c, node, index) ==
    IF c.panicked THEN c
    ELSE IF IsWireNode(node)
    THEN (IF ~DepotValid(c.wires, node[2]) THEN Panic(c)
          ELSE [c EXCEPT !.wires[node[2]].cluster_index = index])
    ELSE IF ~DepotValid(c.components, node[2]) THEN Panic(c)
    ELSE LET handle == node[2]
             direction == node[3]
             component == c.components[handle]
             state == component.state
         IN  CASE get_type(component) = "Pin" ->
                    [c EXCEPT !.components[handle].state.cluster_index = index]
               [] get_type(component) = "Flip" ->
                    IF ~remove_flip_unwrap(c.simulation, state.input_cluster_index,
                                           state.output_cluster_index)
                    THEN Panic(c)
                    ELSE IF direction = component.orientation
                    THEN [c EXCEPT
                            !.simulation = add_flip(
                                remove_flip(@, state.input_cluster_index,
                                            state.output_cluster_index),
                                state.input_cluster_index, index),
                            !.components[handle].state.output_cluster_index = index]
                    ELSE [c EXCEPT
                            !.simulation = add_flip(
                                remove_flip(@, state.input_cluster_index,
                                            state.output_cluster_index),
                                index, state.output_cluster_index),
                            !.components[handle].state.input_cluster_index = index]
               [] OTHER ->
                    IF /\ direction # component.orientation
                       /\ direction # opposite(component.orientation)
                    THEN Panic(c)
                    ELSE IF ~remove_flop_unwrap(c.simulation, state.input_cluster_index,
                                                state.output_cluster_index)
                    THEN Panic(c)
                    ELSE IF direction = component.orientation
                    THEN [c EXCEPT
                            !.simulation = add_flop(
                                remove_flop(@, state.input_cluster_index,
                                            state.output_cluster_index),
                                state.input_cluster_index, index),
                            !.components[handle].state.output_cluster_index = index]
                    ELSE [c EXCEPT
                            !.simulation = add_flop(
                                remove_flop(@, state.input_cluster_index,
                                            state.output_cluster_index),
                                index, state.output_cluster_index),
                            !.components[handle].state.input_cluster_index = index]

\* for node in &cluster { relabel }
RECURSIVE relabel_all(_, _, _)
relabel_all(c, cluster, index) ==
    IF cluster = {} THEN c
    ELSE LET node == CHOOSE n \in cluster : TRUE
         IN  relabel_all(relabel(c, node, index), cluster \ {node}, index)

\* self.simulation.free_cluster(id), with its assert!s
sim_free_cluster(c, id) ==
    IF c.panicked THEN c
    ELSE IF ~free_cluster_asserts(c.simulation, id) THEN Panic(c)
    ELSE [c EXCEPT !.simulation = free_cluster(@, id)]

\* a merge_finish that frees the id merged away and leaves the power of the
\* cluster kept as it was
merge_finish_no_power(c, into_index, from_index) ==
    IF c.panicked THEN c ELSE sim_free_cluster(c, from_index)

\* the end of merge_clusters: the merged cluster is powered if either was,
\* and the id merged away is freed
merge_finish(c, into_index, from_index) ==
    IF c.panicked THEN c
    ELSE sim_free_cluster(
            [c EXCEPT !.simulation =
                set_powered(@, into_index,
                            is_powered(@, into_index) \/ is_powered(@, from_index))],
            from_index)

\* merge_clusters once the two ids differ: relabel the cluster of `from`
merge_into(c, into_index, from_index, from_cluster) ==
    IF from_cluster.panics THEN Panic(c)
    ELSE merge_finish(relabel_all(c, from_cluster.visited, into_index),
                      into_index, from_index)

\* Circuit::merge_clusters
merge_clusters(c, into, from) ==
    IF c.panicked THEN c
    ELSE IF cluster_id_panics(c, into) \/ cluster_id_panics(c, from) THEN Panic(c)
    ELSE IF cluster_id(c, into) = cluster_id(c, from) THEN c
    ELSE merge_into(c, cluster_id(c, into), cluster_id(c, from), cluster_of(c, from))

\* the end of split_clusters: `a` is the result of alloc_cluster; the new
\* cluster takes the power of the kept one, the split nodes take the new id
split_relabel(c, keep_index, split_cluster, a) ==
    relabel_all(
        [c EXCEPT !.simulation = set_powered(a.sim, a.id, is_powered(a.sim, keep_index))],
        split_cluster, a.id)

\* split_clusters once the two ids are equal: nothing to do if `keep` is
\* still reachable from `split`
split_off(c, keep, keep_index, split_cluster) ==
    IF split_cluster.panics THEN Panic(c)
    ELSE IF keep \in split_cluster.visited THEN c
    ELSE split_relabel(c, keep_index, split_cluster.visited,
                       alloc_cluster(c.simulation))

\* a split_clusters that leaves both nodes in the cluster they share
split_clusters_never(c, keep, split) == c

\* Circuit::split_clusters
split_clusters(c, keep, split) ==
    IF c.panicked THEN c
    ELSE IF cluster_id_panics(c, keep) \/ cluster_id_panics(c, split) THEN Panic(c)
    ELSE IF cluster_id(c, keep) # cluster_id(c, split) THEN c
    ELSE split_off(c, keep, cluster_id(c, keep), cluster_of(c, split))

\* for i in 1..nodes.len() { for j in 0..i { split_clusters(nodes[i], nodes[j]) } }
RECURSIVE split_pairs(_, _, _, _)
split_pairs(c, nodes, i, j) ==
    IF i >= Len(nodes) THEN c
    ELSE IF j >= i THEN split_pairs(c, nodes, i + 1, 0)
    ELSE split_pairs(split_clusters(c, nodes[i + 1], nodes[j + 1]), nodes, i, j + 1)

\* Circuit::split_all
split_all(c, position, directions) ==
    IF c.panicked THEN c
    ELSE IF position \notin DOMAIN c.tiles THEN Panic(c)
    ELSE split_pairs(c, WireNodesAt(c.tiles[position], directions), 1, 0)

\* the Some(current) arm of the fold of insert_component, over the nodes
\* after the first
RECURSIVE merge_rest(_, _, _)
merge_rest(c, current, rest) ==
    IF rest = <<>> THEN c
    ELSE merge_rest(merge_clusters(c, current, Head(rest)), current, Tail(rest))

\* the fold of insert_component: merge every node into the first
merge_fold(c, nodes) ==
    IF nodes = <<>> THEN c ELSE merge_rest(c, Head(nodes), Tail(nodes))

\* the Option the fold of insert_component returns
fold_node(nodes) == IF nodes = <<>> THEN None ELSE Some(Head(nodes))

\* tile.wires.get(direction).map(|wire_handle| GraphNode::Wire(wire_handle))
slot_node(t, direction) ==
    IF is_some(get(t.wires, direction))
    THEN Some(WireNode(unwrap(get(t.wires, direction)))) ELSE None

\* match node { Some(node) => self.cluster_id(&node),
\*              None => self.simulation.alloc_cluster() }: [c, id]
cluster_id_or_alloc(c, node) ==
    IF c.panicked THEN [c |-> c, id |-> -1]
    ELSE IF is_some(node)
    THEN (IF cluster_id_panics(c, unwrap(node)) THEN [c |-> Panic(c), id |-> -1]
          ELSE [c |-> c, id |-> cluster_id(c, unwrap(node))])
    ELSE LET a == alloc_cluster(c.simulation)
         IN  [c |-> [c EXCEPT !.simulation = a.sim], id |-> a.id]

\* tile.component = Some(id); tile.update_crossover(..)
mark_tile(c, position, id) ==
    [c EXCEPT !.tiles[position] = update_crossover([@ EXCEPT !.component = Some(id)])]

\* the tail of insert_component: store the component, mark its tile
store_component(c, component) ==
    IF c.panicked THEN c
    ELSE mark_tile(
            entry_or_default(
                [c EXCEPT !.components = DepotInsert(@, HandleNew(c), component),
                          !.next_handle = @ + 1],
                component.position),
            component.position, HandleNew(c))

\* the Pin arm of insert_component after its fold; `r` is the cluster found
\* or allocated
insert_pin(r, position, orientation) ==
    store_component(r.c,
        [ty |-> "Pin", state |-> [cluster_index |-> r.id],
         position |-> position, orientation |-> orientation])

\* the end of the Flip and Flop arms of insert_component: register the
\* flip or flop in the simulation and store the component; `o` is the
\* output cluster found or allocated
insert_gate(ty, input_cluster_index, o, position, orientation) ==
    IF o.c.panicked THEN o.c
    ELSE store_component(
            [o.c EXCEPT !.simulation =
                IF ty = "Flip" THEN add_flip(@, input_cluster_index, o.id)
                ELSE add_flop(@, input_cluster_index, o.id)],
            [ty |-> ty,
             state |-> [input_cluster_index |-> input_cluster_index,
                        output_cluster_index |-> o.id],
             position |-> position, orientation |-> orientation])

\* insert_gate_output that gives the output face the cluster of the input
insert_gate_output_shared(ty, i, output_node, position, orientation) ==
    insert_gate(ty, i.id, [c |-> i.c, id |-> i.id], position, orientation)

\* the Flip and Flop arms of insert_component after the input side; `i` is
\* the input cluster found or allocated
insert_gate_output(ty, i, output_node, position, orientation) ==
    insert_gate(ty, i.id, cluster_id_or_alloc(i.c, output_node), position, orientation)

\* insert_component on a free tile; `t` is the tile, or an empty one
insert_component_on(c, ty, position, orientation, t) ==
    CASE ty = "Pin" ->
            LET nodes == WireNodesAt(t, <<"North", "East", "South", "West">>)
            IN  insert_pin(cluster_id_or_alloc(merge_fold(c, nodes), fold_node(nodes)),
                           position, orientation)
      [] ty = "Flip" ->
            LET nodes == WireNodesAt(t, <<right(orientation), opposite(orientation),
                                          left(orientation)>>)
            IN  insert_gate_output("Flip",
                    cluster_id_or_alloc(merge_fold(c, nodes), fold_node(nodes)),
                    slot_node(t, orientation), position, orientation)
      [] OTHER ->
            insert_gate_output("Flop",
                cluster_id_or_alloc(c, slot_node(t, opposite(orientation))),
                slot_node(t, orientation), position, orientation)

\* Circuit::insert_component
insert_component(c, ty, position, orientation) ==
    IF c.panicked THEN c
    ELSE IF is_some(tile_component(c, position)) THEN c
    ELSE insert_component_on(c, ty, position, orientation,
            IF position \in DOMAIN c.tiles THEN c.tiles[position] ELSE TileDefault)

WireDummy ==
    [start |-> <<0, 0>>, end |-> <<0, 0>>, start_connection |-> "Pin",
     end_connection |-> "Pin", cluster_index |-> -1]

ComponentDummy ==
    [ty |-> "Pin", state |-> [cluster_index |-> -1], position |-> <<0, 0>>,
     orientation |-> "East"]

\* for &id in tile.wires.as_array().iter().flatten(): "dup" (return false),
\* "panic" (self.wires[&id] fails) or "none"
RECURSIVE duplicate_in(_, _, _, _)
duplicate_in(c, slots, start, end) ==
    IF slots = <<>> THEN "none"
    ELSE IF ~is_some(Head(slots)) THEN duplicate_in(c, Tail(slots), start, end)
    ELSE IF ~DepotValid(c.wires, unwrap(Head(slots))) THEN "panic"
    ELSE IF /\ c.wires[unwrap(Head(slots))].start = start
            /\ c.wires[unwrap(Head(slots))].end = end
         THEN "dup"
    ELSE duplicate_in(c, Tail(slots), start, end)

\* a duplicate check that never finds the wire
duplicate_check_none(c, start, end) == "none"

\* the duplicate check of insert_wire over the slots of the start tile
duplicate_check(c, start, end) ==
    IF start \notin DOMAIN c.tiles THEN "none"
    ELSE duplicate_in(c, as_array(c.tiles[start].wires), start, end)

\* self.component(pos).map(|component| component.connection_type(direction))
\*     .unwrap_or(Default::default())
connection_at(c, pos, direction) ==
    IF is_some(tile_component(c, pos))
          /\ DepotValid(c.components, unwrap(tile_component(c, pos)))
    THEN connection_type(c.components[unwrap(tile_component(c, pos))], direction)
    ELSE "Pin"

\* a slot update that fills both axis slots on every tile of the wire, its
\* two end tiles included (without the tests of lines 512 and 515)
set_wire_slot_both(c, id, wire, pos) ==
    [c EXCEPT !.tiles[pos] = update_crossover(
        [@ EXCEPT !.wires = get_mut_assign(
                                get_mut_assign(@, opposite(direction_of(wire)), Some(id)),
                                direction_of(wire), Some(id))])]

\* the body of the `for pos in wire.tiles()` loop of insert_wire; the tile
\* at `pos` exists
set_wire_slot(c, id, wire, pos) ==
    LET dir == direction_of(wire)
        w0 == c.tiles[pos].wires
        w1 == IF pos # wire.start
              THEN get_mut_assign(w0, opposite(dir), Some(id)) ELSE w0
        w2 == IF pos # wire.end THEN get_mut_assign(w1, dir, Some(id)) ELSE w1
    IN  [c EXCEPT !.tiles[pos] = update_crossover([@ EXCEPT !.wires = w2])]

\* the slot updates of insert_wire on the tiles `ts` the new wire covers
RECURSIVE set_wire_slots(_, _, _, _)
set_wire_slots(c, id, wire, ts) ==
    IF ts = <<>> THEN c
    ELSE set_wire_slots(set_wire_slot(entry_or_default(c, Head(ts)), id, wire, Head(ts)),
                        id, wire, Tail(ts))

\* the end of insert_wire: store the wire and fill the slots; `r` is the
\* cluster found or allocated
insert_wire_store(r, start, end, start_connection, end_connection) ==
    LET wire == [start |-> start, end |-> end,
                 start_connection |-> start_connection,
                 end_connection |-> end_connection,
                 cluster_index |-> r.id]
    IN  IF r.c.panicked THEN [c |-> r.c, ret |-> FALSE]
        ELSE [c |-> set_wire_slots(
                        [r.c EXCEPT !.wires = DepotInsert(@, HandleNew(r.c), wire),
                                    !.next_handle = @ + 1],
                        HandleNew(r.c), wire, tiles_of(wire)),
              ret |-> TRUE]

\* insert_wire with start <= end: [c, ret]
insert_wire_ordered(c, start, end) ==
    LET dup == duplicate_check(c, start, end)
        direction == wire_direction(start, end)
        sc == tile_component(c, start)
        ec == tile_component(c, end)
        start_node == ComponentNode(unwrap(sc), direction)
        end_node == ComponentNode(unwrap(ec), opposite(direction))
    IN  IF c.panicked THEN [c |-> c, ret |-> FALSE]
        ELSE IF (start[1] = end[1]) = (start[2] = end[2])
        THEN [c |-> Panic(c), ret |-> FALSE]
        ELSE IF dup = "panic" THEN [c |-> Panic(c), ret |-> FALSE]
        ELSE IF dup = "dup" THEN [c |-> c, ret |-> FALSE]
        ELSE IF \/ (is_some(sc) /\ ~DepotValid(c.components, unwrap(sc)))
                \/ (is_some(ec) /\ ~DepotValid(c.components, unwrap(ec)))
        THEN [c |-> Panic(c), ret |-> FALSE]
        ELSE insert_wire_store(
                cluster_id_or_alloc(
                    IF is_some(sc) /\ is_some(ec)
                    THEN merge_clusters(c, start_node, end_node) ELSE c,
                    IF is_some(sc) THEN Some(start_node)
                    ELSE IF is_some(ec) THEN Some(end_node) ELSE None),
                start, end,
                connection_at(c, start, direction),
                connection_at(c, end, opposite(direction)))

\* an insert_wire that stores the ends in the order given (without the
\* swap of lines 439-441)
insert_wire_as_given(c, start, end) == insert_wire_ordered(c, start, end)

\* Circuit::insert_wire: [c, ret]
insert_wire(c, start, end) ==
    insert_wire_ordered(c,
        IF LexGreater(start, end) THEN end ELSE start,
        IF LexGreater(start, end) THEN start ELSE end)

\* the body of the `for tile_pos in wire.tiles()` loop of remove_wire, with
\* its tiles.get_mut(..).unwrap() and assert_eq!s
clear_wire_slot(c, wire_id, wire, pos) ==
    IF pos \notin DOMAIN c.tiles THEN Panic(c)
    ELSE LET dir == direction_of(wire)
             w0 == c.tiles[pos].wires
             bad1 == pos # wire.start /\ get(w0, opposite(dir)) # Some(wire_id)
             w1 == IF pos # wire.start
                   THEN get_mut_assign(w0, opposite(dir), None) ELSE w0
             bad2 == pos # wire.end /\ get(w1, dir) # Some(wire_id)
             w2 == IF pos # wire.end THEN get_mut_assign(w1, dir, None) ELSE w1
         IN  IF bad1 \/ bad2 THEN Panic(c)
             ELSE [c EXCEPT !.tiles[pos] = update_crossover([@ EXCEPT !.wires = w2])]

\* the slot clearing of remove_wire on the tiles `ts` the wire covered
RECURSIVE clear_wire_slots(_, _, _, _)
clear_wire_slots(c, wire_id, wire, ts) ==
    IF ts = <<>> \/ c.panicked THEN c
    ELSE clear_wire_slots(clear_wire_slot(c, wire_id, wire, Head(ts)),
                          wire_id, wire, Tail(ts))

\* a removal that frees the cluster without asking for neighbors (without
\* the has_neighbors test of lines 534, 543-548, 560-565 and 604)
free_always(c, node, id) ==
    IF c.panicked THEN c ELSE sim_free_cluster(c, id)

\* if !self.has_neighbors(&node) { self.simulation.free_cluster(id) }
free_unless_neighbors(c, node, id) ==
    IF c.panicked THEN c
    ELSE IF neighbors_panics(c, node) THEN Panic(c)
    ELSE IF ~has_neighbors(c, node) THEN sim_free_cluster(c, id)
    ELSE c

\* remove_wire: the wire leaves the depot and the tiles it covered
remove_wire_clear(c, wire_id, wire) ==
    IF c.panicked THEN c
    ELSE clear_wire_slots([c EXCEPT !.wires = DepotRemove(@, wire_id)],
                          wire_id, wire, tiles_of(wire))

\* the end of remove_wire: split the clusters of the components at its ends
remove_wire_split(c, wire) ==
    LET start_component == tile_component(c, wire.start)
        end_component == tile_component(c, wire.end)
    IN  IF is_some(start_component) /\ is_some(end_component)
        THEN split_clusters(c,
                ComponentNode(unwrap(start_component), direction_of(wire)),
                ComponentNode(unwrap(end_component), opposite(direction_of(wire))))
        ELSE c

\* Circuit::remove_wire: [c, wire]
remove_wire(c, wire_id) ==
    IF c.panicked THEN [c |-> c, wire |-> WireDummy]
    ELSE IF ~DepotValid(c.wires, wire_id) THEN [c |-> Panic(c), wire |-> WireDummy]
    ELSE [c |-> remove_wire_split(
                    remove_wire_clear(
                        free_unless_neighbors(c, WireNode(wire_id),
                                              c.wires[wire_id].cluster_index),
                        wire_id, c.wires[wire_id]),
                    c.wires[wire_id]),
          wire |-> c.wires[wire_id]]

\* a component removal that keeps the clusters of the component allocated
remove_component_keep(c, component_id, component) == c

\* a remove_component that frees the clusters of a Flip or Flop without
\* taking its registration out of the simulation first
remove_component_free_registered(c, component_id, component) ==
    IF get_type(component) = "Pin"
    THEN free_unless_neighbors(c, ComponentNode(component_id, "North"),
                               component.state.cluster_index)
    ELSE free_unless_neighbors(
            free_unless_neighbors(c, ComponentNode(component_id,
                                                   opposite(component.orientation)),
                                  component.state.input_cluster_index),
            ComponentNode(component_id, component.orientation),
            component.state.output_cluster_index)

\* the first match of remove_component: unregister a Flip or Flop, free
\* the clusters of the faces that have no wire
remove_component_free(c, component_id, component) ==
    LET orientation == component.orientation
        state == component.state
    IN  CASE get_type(component) = "Pin" ->
                free_unless_neighbors(c, ComponentNode(component_id, "North"),
                                      state.cluster_index)
          [] get_type(component) = "Flip" ->
                (IF ~remove_flip_unwrap(c.simulation, state.input_cluster_index,
                                        state.output_cluster_index)
                 THEN Panic(c)
                 ELSE free_unless_neighbors(
                        free_unless_neighbors(
                            [c EXCEPT !.simulation =
                                remove_flip(@, state.input_cluster_index,
                                            state.output_cluster_index)],
                            ComponentNode(component_id, opposite(orientation)),
                            state.input_cluster_index),
                        ComponentNode(component_id, orientation),
                        state.output_cluster_index))
          [] OTHER ->
                (IF ~remove_flop_unwrap(c.simulation, state.input_cluster_index,
                                        state.output_cluster_index)
                 THEN Panic(c)
                 ELSE free_unless_neighbors(
                        free_unless_neighbors(
                            [c EXCEPT !.simulation =
                                remove_flop(@, state.input_cluster_index,
                                            state.output_cluster_index)],
                            ComponentNode(component_id, opposite(orientation)),
                            state.input_cluster_index),
                        ComponentNode(component_id, orientation),
                        state.output_cluster_index))

\* a remove_component that takes the component off its tile and leaves it
\* in the depot (without components.remove of line 573)
remove_component_unmark(c, component_id, component) ==
    IF c.panicked THEN c
    ELSE IF component.position \notin DOMAIN c.tiles THEN Panic(c)
    ELSE [c EXCEPT !.tiles[component.position] =
                        update_crossover([@ EXCEPT !.component = None])]

\* remove_component: the component leaves the depot and its tile
remove_component_clear(c, component_id, component) ==
    IF c.panicked THEN c
    ELSE IF component.position \notin DOMAIN c.tiles THEN Panic(c)
    ELSE [c EXCEPT !.components = DepotRemove(@, component_id),
                   !.tiles[component.position] =
                        update_crossover([@ EXCEPT !.component = None])]

\* the second match of remove_component: split the wires it joined
remove_component_split(c, component) ==
    CASE get_type(component) = "Pin" ->
            split_all(c, component.position, <<"North", "East", "South", "West">>)
      [] get_type(component) = "Flip" ->
            split_all(c, component.position,
                      <<right(component.orientation), opposite(component.orientation),
                        left(component.orientation)>>)
      [] OTHER -> c

\* Circuit::remove_component: [c, component]
remove_component(c, component_id) ==
    IF c.panicked THEN [c |-> c, component |-> ComponentDummy]
    ELSE IF ~DepotValid(c.components, component_id)
    THEN [c |-> Panic(c), component |-> ComponentDummy]
    ELSE [c |-> remove_component_split(
                    remove_component_clear(
                        remove_component_free(c, component_id,
                                              c.components[component_id]),
                        component_id, c.components[component_id]),
                    c.components[component_id]),
          component |-> c.components[component_id]]

\* Circuit::can_place_wire reaches a components.get of a stale handle
can_place_wire_panics(c, start, end) ==
    \E pos \in SeqToSet(wire_tiles(start, end)) :
        /\ is_some(tile_component(c, pos))
        /\ ~DepotValid(c.components, unwrap(tile_component(c, pos)))

\* a can_place_wire whose Flop arm lacks the test of the side faces (lines
\* 118-122)
can_place_wire_any_face(c, start, end) ==
    \A tile_pos \in SeqToSet(wire_tiles(start, end)) :
        IF ~is_some(tile_component(c, tile_pos)) THEN TRUE
        ELSE CASE get_type(c.components[unwrap(tile_component(c, tile_pos))]) = "Pin" ->
                    TRUE
               [] get_type(c.components[unwrap(tile_component(c, tile_pos))]) = "Flip" ->
                    ~(/\ tile_pos # start
                      /\ tile_pos # end
                      /\ wire_direction(start, end) \in
                            {c.components[unwrap(tile_component(c, tile_pos))].orientation,
                             opposite(c.components[unwrap(tile_component(c, tile_pos))]
                                        .orientation)})
               [] OTHER -> ~(tile_pos # start /\ tile_pos # end)

\* a can_place_wire whose Flip arm lacks the test of the ends (lines 101-102)
can_place_wire_flip_ends(c, start, end) ==
    \A tile_pos \in SeqToSet(wire_tiles(start, end)) :
        IF ~is_some(tile_component(c, tile_pos)) THEN TRUE
        ELSE CASE get_type(c.components[unwrap(tile_component(c, tile_pos))]) = "Pin" ->
                    TRUE
               [] get_type(c.components[unwrap(tile_component(c, tile_pos))]) = "Flip" ->
                    wire_direction(start, end) \notin
                        {c.components[unwrap(tile_component(c, tile_pos))].orientation,
                         opposite(c.components[unwrap(tile_component(c, tile_pos))]
                                    .orientation)}
               [] OTHER ->
                    /\ ~(tile_pos # start /\ tile_pos # end)
                    /\ wire_direction(start, end) \notin
                        {left(c.components[unwrap(tile_component(c, tile_pos))].orientation),
                         right(c.components[unwrap(tile_component(c, tile_pos))]
                                    .orientation)}

\* Circuit::can_place_wire
can_place_wire(c, start, end) ==
    LET direction == wire_direction(start, end)
    IN  \A tile_pos \in SeqToSet(wire_tiles(start, end)) :
            IF ~is_some(tile_component(c, tile_pos)) THEN TRUE
            ELSE LET component == c.components[unwrap(tile_component(c, tile_pos))]
                 IN  CASE get_type(component) = "Pin" -> TRUE
                       [] get_type(component) = "Flip" ->
                            ~(/\ tile_pos # start
                              /\ tile_pos # end
                              /\ direction \in {component.orientation,
                                                opposite(component.orientation)})
                       [] OTHER ->
                            /\ ~(tile_pos # start /\ tile_pos # end)
                            /\ direction \notin {left(component.orientation),
                                                 right(component.orientation)}

\* a can_place_component that gives a Flop the rule of a Flip
can_place_component_flop_as_flip(c, ty, position, orientation) ==
    IF position \notin DOMAIN c.tiles THEN TRUE
    ELSE IF is_some(c.tiles[position].component) THEN FALSE
    ELSE IF ty = "Pin" THEN TRUE
    ELSE ~is_some(get(c.tiles[position].wires, orientation))

\* Circuit::can_place_component
can_place_component(c, ty, position, orientation) ==
    IF position \notin DOMAIN c.tiles THEN TRUE
    ELSE LET t == c.tiles[position]
         IN  IF is_some(t.component) THEN FALSE
             ELSE CASE ty = "Pin" -> TRUE
                    [] ty = "Flip" -> ~is_some(get(t.wires, orientation))
                    [] OTHER -> count(t.wires) = 0

\* place_component: the two halves of a removed pass-through wire, meeting
\* at `position`; `r` is the result of remove_wire
split_through_insert(r, position) ==
    IF r.c.panicked THEN r.c
    ELSE insert_wire(insert_wire(r.c, r.wire.start, position).c,
                     position, r.wire.end).c

\* place_component: split the wire `wire_id` if it passes over `position`
split_through(c, passes, wire_id, position) ==
    IF passes THEN split_through_insert(remove_wire(c, wire_id), position) ELSE c

\* place_component once legal; the tile at `position` exists
place_component_on(c, ty, position, orientation) ==
    LET ws == c.tiles[position].wires
    IN  insert_component(
            split_through(
                split_through(c, is_some(ws.north) /\ ws.north = ws.south,
                              unwrap(ws.north), position),
                is_some(ws.east) /\ ws.east = ws.west, unwrap(ws.east), position),
            ty, position, orientation)

\* Circuit::place_component: [c, ret]
place_component(c, ty, position, orientation) ==
    IF c.panicked THEN [c |-> c, ret |-> FALSE]
    ELSE IF ~can_place_component(c, ty, position, orientation)
    THEN [c |-> c, ret |-> FALSE]
    ELSE [c |-> place_component_on(entry_or_default(c, position),
                                   ty, position, orientation),
          ret |-> TRUE]

\* wire_tiles(start, end).filter(|pos| the tile at pos has a component)
RECURSIVE split_points(_, _)
split_points(c, ts) ==
    IF ts = <<>> THEN <<>>
    ELSE (IF is_some(tile_component(c, Head(ts))) THEN <<Head(ts)>> ELSE <<>>)
         \o split_points(c, Tail(ts))

\* for v in split_points.windows(2) { self.insert_wire(v[0], v[1]) }
RECURSIVE insert_windows(_, _)
insert_windows(c, points) ==
    IF Len(points) < 2 THEN c
    ELSE insert_windows(insert_wire(c, points[1], points[2]).c, Tail(points))

\* place_wire after its two pins: one wire between each two neighbouring
\* components on the path
place_wire_segments(c, start, end) ==
    insert_windows(c, split_points(c, wire_tiles(start, end)))

\* a place_wire that inserts before it looks at the legality check
place_wire_unchecked(c, start, end) ==
    IF c.panicked THEN [c |-> c, ret |-> FALSE]
    ELSE IF can_place_wire_panics(c, start, end) THEN [c |-> Panic(c), ret |-> FALSE]
    ELSE [c |-> place_wire_segments(
                    place_component(place_component(c, "Pin", start, "East").c,
                                    "Pin", end, "East").c, start, end),
          ret |-> can_place_wire(c, start, end)]

\* Circuit::place_wire: [c, ret]
place_wire(c, start, end) ==
    IF c.panicked THEN [c |-> c, ret |-> FALSE]
    ELSE IF can_place_wire_panics(c, start, end) THEN [c |-> Panic(c), ret |-> FALSE]
    ELSE IF ~can_place_wire(c, start, end) THEN [c |-> c, ret |-> FALSE]
    ELSE [c |-> place_wire_segments(
                    place_component(
                        place_component(c, "Pin", start, "East").c,
                        "Pin", end, "East").c,
                    start, end),
          ret |-> TRUE]

\* Some(wire) of the result of remove_wire
some_wire(r) == [c |-> r.c, wire |-> Some(r.wire)]

\* a removal by slot that leaves the wire where it is
remove_wire_opt_kept(c, slot) == [c |-> c, wire |-> None]

\* tile.wires.<slot>.map(|id| self.remove_wire(id)): [c, wire], wire an Option
remove_wire_opt(c, slot) ==
    IF is_some(slot) THEN some_wire(remove_wire(c, unwrap(slot)))
    ELSE [c |-> c, wire |-> None]

\* a rejoin that puts back the first of the two wires only
rejoin_half(c, a, b) ==
    IF is_some(a) /\ is_some(b) THEN insert_wire(c, unwrap(a).start, unwrap(a).end).c
    ELSE c

\* if let (Some(a), Some(b)) = (a, b) { self.insert_wire(a.start, b.end) }
rejoin(c, a, b) ==
    IF is_some(a) /\ is_some(b) THEN insert_wire(c, unwrap(a).start, unwrap(b).end).c
    ELSE c

\* the end of delete_component: a deleted Pin leaves the wires that faced
\* each other joined; `w` is the result of the removal on the west
delete_component_rejoin(component, north, east, south, w) ==
    IF w.c.panicked THEN w.c
    ELSE IF get_type(component) = "Pin"
    THEN rejoin(rejoin(w.c, south, north), w.wire, east)
    ELSE w.c

\* delete_component: the removals on the south and on the west
delete_component_west(component, north, east, s, ws) ==
    delete_component_rejoin(component, north, east, s.wire,
                            remove_wire_opt(s.c, ws.west))

delete_component_south(component, north, e, ws) ==
    delete_component_west(component, north, e.wire,
                          remove_wire_opt(e.c, ws.south), ws)

\* delete_component: the removal on the east
delete_component_east(component, n, ws) ==
    delete_component_south(component, n.wire, remove_wire_opt(n.c, ws.east), ws)

\* delete_component after remove_component (`rc`): the removal on the north
delete_component_north(rc, ws) ==
    delete_component_east(rc.component, remove_wire_opt(rc.c, ws.north), ws)

\* Circuit::delete_component
delete_component(c, position) ==
    IF c.panicked \/ position \notin DOMAIN c.tiles THEN c
    ELSE IF ~is_some(c.tiles[position].component) THEN c
    ELSE delete_component_north(
            remove_component(c, unwrap(c.tiles[position].component)),
            c.tiles[position].wires)

\* if `remove` { self.remove_wire(slot.unwrap()) }
remove_wire_if(c, removes, slot) ==
    IF removes THEN remove_wire(c, unwrap(slot)).c ELSE c

\* a delete_all_at that leaves the wire in the west slot alone
delete_all_at_keep_west(c, position) ==
    IF c.panicked \/ position \notin DOMAIN c.tiles THEN c
    ELSE remove_wire_if(
            remove_wire_if(
                remove_wire_if(
                    IF is_some(c.tiles[position].component)
                    THEN remove_component(c, unwrap(c.tiles[position].component)).c ELSE c,
                    is_some(c.tiles[position].wires.north), c.tiles[position].wires.north),
                is_some(c.tiles[position].wires.south)
                    /\ c.tiles[position].wires.south # c.tiles[position].wires.north,
                c.tiles[position].wires.south),
            is_some(c.tiles[position].wires.east), c.tiles[position].wires.east)

\* Circuit::delete_all_at
delete_all_at(c, position) ==
    IF c.panicked \/ position \notin DOMAIN c.tiles THEN c
    ELSE LET t == c.tiles[position]
             ws == t.wires
         IN  remove_wire_if(
                remove_wire_if(
                    remove_wire_if(
                        remove_wire_if(
                            IF is_some(t.component)
                            THEN remove_component(c, unwrap(t.component)).c ELSE c,
                            is_some(ws.north), ws.north),
                        is_some(ws.south) /\ ws.south # ws.north, ws.south),
                    is_some(ws.east), ws.east),
                is_some(ws.west) /\ ws.west # ws.east, ws.west)

(***************************************************************************)
(* cursor/mod.rs: CursorManager.  current_state is <<"Normal">>, <<"Pan">> *)
(* or <<"PlaceWire", start_position, end_position>>; the sprites and the   *)
(* screen position of a Pan play no part in the outline colour and are     *)
(* left out.  The outline colour is "blue" for (0, 0, 1), "red" for        *)
(* (1, 0, 0); OutlineRenderer::new starts with Uniforms::default, blue.    *)
(***************************************************************************)
CursorManagerNew ==
    [current_state |-> <<"Normal">>, place_sprite |-> "Pin",
     place_orientation |-> "North", outline_color |-> "blue"]

\* CursorManager::place_type
place_type(cm) == cm.place_sprite

\* CursorManager::start_pan
start_pan(cm) == [cm EXCEPT !.current_state = <<"Pan">>]

\* CursorManager::start_place_wire, with the tile under the cursor
start_place_wire(cm, cursor_tile) ==
    [cm EXCEPT !.current_state = <<"PlaceWire", cursor_tile, cursor_tile>>]

\* CursorManager::end
cursor_end(cm) == [cm EXCEPT !.current_state = <<"Normal">>]

\* CursorManager::set_place_type
set_place_type(cm, ty) == [cm EXCEPT !.place_sprite = ty]

\* CursorManager::set_place_orientation
set_place_orientation(cm, direction) == [cm EXCEPT !.place_orientation = direction]

\* update, PlaceWire arm: *end_position = *start_position + size, where size
\* is delta cut down to the axis on which it is longer
snap(start_position, cursor_tile) ==
    IF Abs(cursor_tile[1] - start_position[1]) > Abs(cursor_tile[2] - start_position[2])
    THEN <<cursor_tile[1], start_position[2]>>
    ELSE <<start_position[1], cursor_tile[2]>>

\* update: the match on &mut self.current_state
update_state(cm, cursor_tile) ==
    IF cm.current_state[1] = "PlaceWire"
    THEN [cm EXCEPT !.current_state[3] = snap(cm.current_state[2], cursor_tile)]
    ELSE cm

\* update: valid_place, computed after the state was brought up to date
valid_place(cm, cursor_tile, c) ==
    IF cm.current_state[1] = "PlaceWire"
    THEN can_place_wire(c, cm.current_state[2], cm.current_state[3])
    ELSE IF place_type(cm) = "Pin" THEN TRUE
    ELSE can_place_component(c, place_type(cm), cursor_tile, cm.place_orientation)

\* update: set_outline_color
update_outline(cm, cursor_tile, c) ==
    [cm EXCEPT !.outline_color = IF valid_place(cm, cursor_tile, c) THEN "blue" ELSE "red"]

\* CursorManager::update, with the tile under the cursor and the circuit
update(cm, cursor_tile, c) == update_outline(update_state(cm, cursor_tile), cursor_tile, c)

(***************************************************************************)
(* Views of a circuit that do not depend on how handles and cluster ids    *)
(* are numbered: a wire is named by its ends, a face by its tile and role. *)
(***************************************************************************)
\* the faces of a component that carry a cluster id, as <<role, id>>
FaceClusters(component) ==
    IF get_type(component) = "Pin" THEN {<<"pin", component.state.cluster_index>>}
    ELSE {<<"in", component.state.input_cluster_index>>,
          <<"out", component.state.output_cluster_index>>}

\* every wire and every face with the cluster id it stores
Labelled(c) ==
    {<<<<"W", c.wires[h].start, c.wires[h].end>>, c.wires[h].cluster_index>> :
        h \in DOMAIN c.wires}
    \cup UNION {{<<<<"F", c.components[h].position, f[1]>>, f[2]>> :
                    f \in FaceClusters(c.components[h])} : h \in DOMAIN c.components}

\* the wires and faces grouped by cluster id
Partition(c) ==
    {{l[1] : l \in {m \in Labelled(c) : m[2] = k}} : k \in {l[2] : l \in Labelled(c)}}

\* what is on the grid: components, wires, tile slots, crossovers
Layout(c) ==
    [components |-> {<<c.components[h].position, get_type(c.components[h]),
                       c.components[h].orientation>> : h \in DOMAIN c.components},
     on_tiles |-> {<<pos, c.components[unwrap(c.tiles[pos].component)].position>> :
                    pos \in {p \in DOMAIN c.tiles :
                                /\ is_some(c.tiles[p].component)
                                /\ DepotValid(c.components, unwrap(c.tiles[p].component))}},
     wires |-> {<<c.wires[h].start, c.wires[h].end>> : h \in DOMAIN c.wires},
     slots |-> {<<pd[1], pd[2], c.wires[unwrap(get(c.tiles[pd[1]].wires, pd[2]))].start,
                  c.wires[unwrap(get(c.tiles[pd[1]].wires, pd[2]))].end>> :
                    pd \in {qd \in (DOMAIN c.tiles) \X Directions :
                                /\ is_some(get(c.tiles[qd[1]].wires, qd[2]))
                                /\ DepotValid(c.wires,
                                              unwrap(get(c.tiles[qd[1]].wires, qd[2])))}},
     crossovers |-> {pos \in DOMAIN c.tiles : c.tiles[pos].crossover}]

\* the steps (two neighbouring tiles) of the segment from start to end
Steps(start, end) ==
    {{wire_tiles(start, end)[i], wire_tiles(start, end)[i + 1]} :
        i \in 1..(Len(wire_tiles(start, end)) - 1)}

\* the segment from start to end runs over a step of a wire already there
Overlaps(c, start, end) ==
    \E h \in DOMAIN c.wires :
        Steps(start, end) \cap Steps(c.wires[h].start, c.wires[h].end) # {}

\* place_wire(s, e) returned r and place_wire(e, s), from the same circuit,
\* returned m: what the two results agree on
Compare(r, m) ==
    [ret |-> r.ret = m.ret,
     layout |-> Layout(r.c) = Layout(m.c),
     partition |-> Partition(r.c) = Partition(m.c),
     ids |-> Labelled(r.c) = Labelled(m.c)]

NoMirror == [ret |-> TRUE, layout |-> TRUE, partition |-> TRUE, ids |-> TRUE]

\* the wires and faces whose cluster is powered
Powered(c) ==
    {l[1] : l \in {m \in Labelled(c) : InBounds(c.simulation, m[2])
                                        /\ is_powered(c.simulation, m[2])}}

\* the wires and faces of `before` that `after` still has
Kept(before, after) == {l[1] : l \in Labelled(before)} \cap {l[1] : l \in Labelled(after)}

\* the call that turned `before` into `after` has taken the power from the
\* cluster of a wire or face that both have
Dimmed(before, after) == ~(Powered(before) \cap Kept(before, after) \subseteq Powered(after))

\* the tile at pos, a tile the map has no entry for being an empty tile
TileAt(c, pos) == IF pos \in DOMAIN c.tiles THEN c.tiles[pos] ELSE TileDefault

\* place_component(Pin, t, East) and then delete_component(t) turned the
\* circuit `before` into `after`: what the two agree on
Undone(before, after) ==
    [tiles |-> \A pos \in DOMAIN before.tiles \cup DOMAIN after.tiles :
                    TileAt(before, pos) = TileAt(after, pos),
     layout |-> Layout(before) = Layout(after),
     partition |-> Partition(before) = Partition(after),
     power |-> Powered(before) = Powered(after),
     ids |-> Labelled(before) = Labelled(after),
     depots |-> before.components = after.components /\ before.wires = after.wires]

NoUndo ==
    [tiles |-> TRUE, layout |-> TRUE, partition |-> TRUE, power |-> TRUE, ids |-> TRUE,
     depots |-> TRUE]

\* the tile next to pos in direction d
Step(pos, d) ==
    CASE d = "East" -> <<pos[1] + 1, pos[2]>>
      [] d = "North" -> <<pos[1], pos[2] + 1>>
      [] d = "West" -> <<pos[1] - 1, pos[2]>>
      [] OTHER -> <<pos[1], pos[2] - 1>>

\* the components of type ty on the tiles `positions`, found by position
ComponentsOn(c, ty, positions) ==
    {h \in DOMAIN c.components :
        get_type(c.components[h]) = ty /\ c.components[h].position \in positions}

\* the segment from start to end runs along the axis of orientation o
Parallel(start, end, o) == (start[2] = end[2]) = (o \in {"East", "West"})

\* the tiles of the segment strictly between its ends
Inside(start, end) == SeqToSet(wire_tiles(start, end)) \ {start, end}

\* a wire of c lies on tile pos
WireOver(c, pos) ==
    \E h \in DOMAIN c.wires : pos \in SeqToSet(tiles_of(c.wires[h]))

\* a wire of c runs from tile pos on in direction d
WireFrom(c, pos, d) ==
    \E h \in DOMAIN c.wires :
        /\ pos \in SeqToSet(tiles_of(c.wires[h]))
        /\ Step(pos, d) \in SeqToSet(tiles_of(c.wires[h]))

\* what holds of the circuit c and the segment a place_wire call is given
WireFacts(c, start, end) ==
    {f \in {"flop_inside", "flop_side", "flop_end", "flip_inside_parallel",
            "flip_inside_across", "flip_end"} :
        CASE f = "flop_inside" -> ComponentsOn(c, "Flop", Inside(start, end)) # {}
          [] f = "flop_side" ->
                \E h \in ComponentsOn(c, "Flop", {start, end}) :
                    ~Parallel(start, end, c.components[h].orientation)
          [] f = "flop_end" ->
                \E h \in ComponentsOn(c, "Flop", {start, end}) :
                    Parallel(start, end, c.components[h].orientation)
          [] f = "flip_inside_parallel" ->
                \E h \in ComponentsOn(c, "Flip", Inside(start, end)) :
                    Parallel(start, end, c.components[h].orientation)
          [] f = "flip_inside_across" ->
                \E h \in ComponentsOn(c, "Flip", Inside(start, end)) :
                    ~Parallel(start, end, c.components[h].orientation)
          [] OTHER -> ComponentsOn(c, "Flip", {start, end}) # {}}

\* what holds of the circuit c and the arguments a place_component call is
\* given
ComponentFacts(c, ty, position, orientation) ==
    {f \in {ty, "occupied", "wired", "wire_ahead", "emptied"} :
        CASE f = ty -> TRUE
          [] f = "occupied" -> ComponentsOn(c, "Pin", {position}) # {}
                               \/ ComponentsOn(c, "Flip", {position}) # {}
                               \/ ComponentsOn(c, "Flop", {position}) # {}
          [] f = "wired" -> WireOver(c, position)
          [] f = "wire_ahead" -> WireFrom(c, position, orientation)
          [] OTHER -> position \in DOMAIN c.tiles}

(***************************************************************************)
(* The state machine: one action per public mutation of Circuit.           *)
(***************************************************************************)
MaxOps == 3
Width == 3
Height == 2

Grid == {<<x, y>> : x \in 0..(Width - 1), y \in 0..(Height - 1)}

AxisAligned(s, e) == (s[1] = e[1]) # (s[2] = e[2])

\* the arguments the editor passes: two distinct tiles on one axis
WireEnds(positions) == {se \in positions \X positions : AxisAligned(se[1], se[2])}

Self ==
    [tiles |-> tiles, components |-> components, wires |-> wires,
     simulation |-> simulation, next_handle |-> next_handle, panicked |-> panicked]

\* one more public call, of at most `max`, has left the circuit as `c`
Commit(c, max) ==
    /\ nops < max
    /\ nops' = nops + 1
    /\ tiles' = c.tiles
    /\ components' = c.components
    /\ wires' = c.wires
    /\ simulation' = c.simulation
    /\ next_handle' = c.next_handle
    /\ panicked' = c.panicked
    /\ scene' = scene
    /\ UNCHANGED <<manager, handles, cursor>>

TripOff == [stage |-> "off", s |-> <<0, 0>>, e |-> <<0, 0>>]

\* no call of the simulation tests has been made
SceneNew == [stage |-> "new", ticks |-> 0]

Init ==
    /\ tiles = CircuitNew.tiles
    /\ components = CircuitNew.components
    /\ wires = CircuitNew.wires
    /\ simulation = CircuitNew.simulation
    /\ next_handle = CircuitNew.next_handle
    /\ panicked = CircuitNew.panicked
    /\ last = [op |-> "new", ret |-> TRUE, overlap |-> FALSE, mirror |-> NoMirror,
               facts |-> {}, undo |-> NoUndo, at |-> None, dimmed |-> FALSE]
    /\ trip = [stage |-> "new", s |-> <<0, 0>>, e |-> <<0, 0>>]
    /\ nops = 0
    /\ scene = SceneNew
    /\ manager = InstanceManagerNew
    /\ handles = HandlesNew
    /\ cursor = CursorManagerNew

\* place_wire returned `r`; `m` is what the call with its ends exchanged
\* returns from the same circuit
PlaceWireReturn(r, m, overlap, facts, max) ==
    /\ Commit(r.c, max)
    /\ last' = [op |-> "place_wire", ret |-> r.ret, overlap |-> overlap,
                mirror |-> Compare(r, m), facts |-> facts, undo |-> NoUndo, at |-> None,
                dimmed |-> Dimmed(Self, r.c)]

PlaceWire(ends, max) ==
    \E se \in ends :
        /\ ~panicked
        /\ PlaceWireReturn(place_wire(Self, se[1], se[2]),
                           place_wire(Self, se[2], se[1]),
                           Overlaps(Self, se[1], se[2]),
                           WireFacts(Self, se[1], se[2]), max)
        /\ trip' = IF trip.stage = "new"
                   THEN [stage |-> "placed", s |-> se[1], e |-> se[2]] ELSE TripOff

\* place_component returned `r`; `after` is what delete_component on the
\* same tile, called next, leaves
PlaceComponentReturn(r, after, facts, max) ==
    /\ Commit(r.c, max)
    /\ last' = [op |-> "place_component", ret |-> r.ret, overlap |-> FALSE,
                mirror |-> NoMirror, facts |-> facts, undo |-> Undone(Self, after),
                at |-> None, dimmed |-> Dimmed(Self, r.c)]

PlaceComponentUndo(r, position, facts, max) ==
    PlaceComponentReturn(r, delete_component(r.c, position), facts, max)

PlaceComponent(inputs, max) ==
    \E in \in inputs :
        /\ ~panicked
        /\ PlaceComponentUndo(place_component(Self, in[1], in[2], in[3]), in[2],
                              ComponentFacts(Self, in[1], in[2], in[3]), max)
        /\ trip' = TripOff

DeleteComponent(positions, max) ==
    \E position \in positions :
        /\ ~panicked
        /\ Commit(delete_component(Self, position), max)
        /\ last' = [op |-> "delete_component", ret |-> TRUE, overlap |-> FALSE,
                    mirror |-> NoMirror, facts |-> {}, undo |-> NoUndo, at |-> None,
                    dimmed |-> Dimmed(Self, delete_component(Self, position))]
        /\ trip' = TripOff

DeleteAllAt(positions, max) ==
    \E position \in positions :
        /\ ~panicked
        /\ Commit(delete_all_at(Self, position), max)
        /\ last' = [op |-> "delete_all_at", ret |-> TRUE, overlap |-> FALSE,
                    mirror |-> NoMirror, facts |-> {}, undo |-> NoUndo,
                    at |-> Some(position),
                    dimmed |-> Dimmed(Self, delete_all_at(Self, position))]
        /\ trip' = CASE trip.stage = "placed" /\ position = trip.s ->
                            [trip EXCEPT !.stage = "deleted_start"]
                     [] trip.stage = "deleted_start" /\ position = trip.e ->
                            [trip EXCEPT !.stage = "done"]
                     [] OTHER -> TripOff

\* the components placed: a Pin on any tile (its orientation plays no part,
\* place_wire passes East), a Flip or a Flop in every orientation on a
\* corner tile and on a middle tile (the others are their mirror images)
GatePositions == {<<0, 0>>, <<1, 0>>}
ComponentInputs ==
    ({"Pin"} \X Grid \X {"East"}) \cup ({"Flip", "Flop"} \X GatePositions \X Directions)

\* every public mutation on a Width x Height grid
Next ==
    \/ PlaceWire(WireEnds(Grid), MaxOps)
    \/ PlaceComponent(ComponentInputs, MaxOps)
    \/ DeleteComponent(Grid, MaxOps)
    \/ DeleteAllAt(Grid, MaxOps)

Spec == Init /\ [][Next]_vars

\* longer runs on a rectangle of wires: its four corners and the middle
\* tile of its long lower side
MaxLoopOps == 5
LoopCorners == {<<0, 0>>, <<2, 0>>, <<0, 1>>, <<2, 1>>}
LoopMiddle == {<<1, 0>>}

\* the four sides of the rectangle, each from its smaller end
LoopEnds == {se \in WireEnds(LoopCorners) : ~LexGreater(se[1], se[2])}

NextLoop ==
    \/ PlaceWire(LoopEnds, MaxLoopOps)
    \/ PlaceComponent({"Pin", "Flip"} \X LoopMiddle \X {"North"}, MaxLoopOps)
    \/ DeleteComponent(LoopMiddle, MaxLoopOps)
    \/ DeleteAllAt(LoopCorners \cup LoopMiddle, MaxLoopOps)

SpecLoop == Init /\ [][NextLoop]_vars

\* two wires crossing: the ends of a horizontal and of a vertical segment
\* and the tile where they cross
MaxCrossOps == 4
CrossCentre == {<<1, 1>>}
CrossTiles == {<<0, 1>>, <<2, 1>>, <<1, 0>>, <<1, 2>>} \cup CrossCentre
CrossEnds == {se \in WireEnds(CrossTiles) : ~LexGreater(se[1], se[2])}

NextCross ==
    \/ PlaceWire(CrossEnds, MaxCrossOps)
    \/ PlaceComponent(ComponentTypes \X CrossCentre \X {"North", "East"}, MaxCrossOps)
    \/ DeleteComponent(CrossCentre, MaxCrossOps)
    \/ DeleteAllAt(CrossCentre \cup {<<0, 1>>, <<1, 0>>}, MaxCrossOps)

SpecCross == Init /\ [][NextCross]_vars

\* two gates side by side, both facing North, and the wires that join
\* their inputs (along the lower row) and their outputs (along the upper)
MaxGateOps == 6
GateTiles == {<<0, 0>>, <<1, 0>>}
GateEnds == {<<<<0, 0>>, <<1, 0>>>>, <<<<0, 0>>, <<0, 1>>>>,
             <<<<1, 0>>, <<1, 1>>>>, <<<<0, 1>>, <<1, 1>>>>}

NextGates ==
    \/ PlaceWire(GateEnds, MaxGateOps)
    \/ PlaceComponent({"Flip", "Flop"} \X GateTiles \X {"North"}, MaxGateOps)
    \/ DeleteComponent({<<0, 0>>}, MaxGateOps)
    \/ DeleteAllAt({<<1, 0>>, <<0, 1>>}, MaxGateOps)

SpecGates == Init /\ [][NextGates]_vars

\* a ring of wires around the grid, from the output face of a Flop that
\* faces East on the lower middle tile back to its input face
MaxRingOps == 6
RingFlop == {<<"Flop", <<1, 0>>, "East">>}
RingEnds == {<<<<0, 0>>, <<1, 0>>>>, <<<<1, 0>>, <<2, 0>>>>, <<<<2, 0>>, <<2, 1>>>>,
             <<<<0, 1>>, <<2, 1>>>>, <<<<0, 0>>, <<0, 1>>>>}

NextRing ==
    \/ PlaceWire(RingEnds, MaxRingOps)
    \/ PlaceComponent(RingFlop, MaxRingOps)

SpecRing == Init /\ [][NextRing]_vars

\* Circuit::draw runs one tick of the simulation (the rendering it does
\* besides changes no state of the circuit)
Draw(max) ==
    /\ ~panicked
    /\ Commit([Self EXCEPT !.simulation = tick(@)], max)
    /\ last' = [op |-> "draw", ret |-> TRUE, overlap |-> FALSE,
                mirror |-> NoMirror, facts |-> {}, undo |-> NoUndo, at |-> None,
                dimmed |-> FALSE]
    /\ trip' = TripOff

\* a Flip that powers a horizontal wire, a vertical wire that crosses it,
\* and ticks of the simulation in between
MaxPowerOps == 5
PowerFlip == {<<0, 1>>}
PowerCentre == {<<1, 1>>}
PowerEnds == {<<<<0, 1>>, <<2, 1>>>>, <<<<1, 0>>, <<1, 2>>>>, <<<<1, 1>>, <<1, 2>>>>}

NextPower ==
    \/ PlaceWire(PowerEnds, MaxPowerOps)
    \/ PlaceComponent(({"Flip"} \X PowerFlip \X {"East"})
                        \cup ({"Pin"} \X PowerCentre \X {"East"}), MaxPowerOps)
    \/ DeleteComponent(PowerCentre, MaxPowerOps)
    \/ DeleteAllAt({<<1, 2>>}, MaxPowerOps)
    \/ Draw(MaxPowerOps)

SpecPower == Init /\ [][NextPower]_vars

(***************************************************************************)
(* The Simulation on its own: its public methods, called in any order on   *)
(* at most MaxClusters clusters.  `scene` follows the calls of the tests   *)
(* of simulation.rs, with a the cluster allocated first and b the second:  *)
(*   feedback_flip:          one, feedback, feedback_removed,              *)
(*                           feedback_settled, feedback_freed              *)
(*   sr_latch_astable:       two, first, astable                           *)
(*   sr_latch_stable:        two, first, first_ticked, stable, pulse,      *)
(*                           pulse1, pulse2, flipped, down1 .. down4       *)
(*   sr_latch_enter_astable: ... stable, pulse, pulse1, short              *)
(* scene.ticks counts the ticks made in a stage: 0, then 1, 2, 1, 2, ...   *)
(* (odd, even).                                                            *)
(***************************************************************************)
MaxClusters == 2
MaxCount == 1
MaxPower == 1

SceneOff == [stage |-> "off", ticks |-> 0]

Stage(name) == [stage |-> name, ticks |-> 0]

\* the stages in which the tests tick for as long as they like
Ticking == {"feedback", "astable", "stable", "flipped", "short"}

Scene(sc, op, x, y) ==
    CASE op = "tick" /\ sc.stage \in Ticking ->
            [sc EXCEPT !.ticks = IF @ = 2 THEN 1 ELSE @ + 1]
      [] op = "alloc_cluster" /\ sc.stage = "new" -> Stage("one")
      [] op = "alloc_cluster" /\ sc.stage = "one" -> Stage("two")
      [] op = "add_flip" /\ sc.stage = "one" /\ <<x, y>> = <<0, 0>> -> Stage("feedback")
      [] op = "remove_flip" /\ sc.stage = "feedback" /\ <<x, y>> = <<0, 0>> ->
            Stage("feedback_removed")
      [] op = "tick" /\ sc.stage = "feedback_removed" -> Stage("feedback_settled")
      [] op = "free_cluster" /\ sc.stage = "feedback_settled" /\ x = 0 ->
            Stage("feedback_freed")
      [] op = "add_flip" /\ sc.stage = "two" /\ <<x, y>> = <<0, 1>> -> Stage("first")
      [] op = "add_flip" /\ sc.stage = "first" /\ <<x, y>> = <<1, 0>> -> Stage("astable")
      [] op = "tick" /\ sc.stage = "first" -> Stage("first_ticked")
      [] op = "add_flip" /\ sc.stage = "first_ticked" /\ <<x, y>> = <<1, 0>> ->
            Stage("stable")
      [] op = "power" /\ sc.stage = "stable" /\ x = 0 -> Stage("pulse")
      [] op = "tick" /\ sc.stage = "pulse" -> Stage("pulse1")
      [] op = "tick" /\ sc.stage = "pulse1" -> Stage("pulse2")
      [] op = "unpower" /\ sc.stage = "pulse1" /\ x = 0 -> Stage("short")
      [] op = "unpower" /\ sc.stage = "pulse2" /\ x = 0 -> Stage("flipped")
      [] op = "remove_flip" /\ sc.stage = "flipped" /\ sc.ticks > 0 /\ <<x, y>> = <<0, 1>> ->
            Stage("down1")
      [] op = "remove_flip" /\ sc.stage = "down1" /\ <<x, y>> = <<1, 0>> -> Stage("down2")
      [] op = "free_cluster" /\ sc.stage = "down2" /\ x = 0 -> Stage("down3")
      [] op = "free_cluster" /\ sc.stage = "down3" /\ x = 1 -> Stage("down4")
      [] OTHER -> SceneOff

\* the cluster ids in use: allocated and not on the free-list
Live(sim) == (0..(sim.num_clusters - 1)) \ SeqToSet(sim.free_clusters)

\* the method `op` was called with x and y; the Simulation is now `sim`, or
\* the call has panicked
SimCall(op, x, y, sim, panics) ==
    /\ ~panicked
    /\ simulation' = IF panics THEN simulation ELSE sim
    /\ panicked' = panics
    /\ scene' = Scene(scene, op, x, y)
    /\ last' = [op |-> op, ret |-> TRUE, overlap |-> FALSE, mirror |-> NoMirror,
                facts |-> {}, undo |-> NoUndo, at |-> None, dimmed |-> FALSE]
    /\ UNCHANGED <<tiles, components, wires, next_handle, trip, nops, manager, handles, cursor>>

SimAlloc ==
    /\ simulation.free_clusters # <<>> \/ simulation.num_clusters < MaxClusters
    /\ SimCall("alloc_cluster", 0, 0, alloc_cluster(simulation).sim, FALSE)

SimFree ==
    \E id \in Live(simulation) :
        SimCall("free_cluster", id, 0, free_cluster(simulation, id),
                ~free_cluster_asserts(simulation, id))

SimAddFlip ==
    \E inp \in Live(simulation) : \E out \in Live(simulation) :
        /\ inp \in DOMAIN simulation.flips[cluster_array_index(out)]
                => simulation.flips[cluster_array_index(out)][inp] < MaxCount
        /\ SimCall("add_flip", inp, out, add_flip(simulation, inp, out), FALSE)

SimRemoveFlip ==
    \E inp \in Live(simulation) : \E out \in Live(simulation) :
        IF remove_flip_unwrap(simulation, inp, out)
        THEN SimCall("remove_flip", inp, out, remove_flip(simulation, inp, out), FALSE)
        ELSE SimCall("remove_flip", inp, out, simulation, TRUE)

SimAddFlop ==
    \E inp \in Live(simulation) : \E out \in Live(simulation) :
        /\ inp \in DOMAIN simulation.flops[cluster_array_index(out)]
                => simulation.flops[cluster_array_index(out)][inp] < MaxCount
        /\ SimCall("add_flop", inp, out, add_flop(simulation, inp, out), FALSE)

SimRemoveFlop ==
    \E inp \in Live(simulation) : \E out \in Live(simulation) :
        IF remove_flop_unwrap(simulation, inp, out)
        THEN SimCall("remove_flop", inp, out, remove_flop(simulation, inp, out), FALSE)
        ELSE SimCall("remove_flop", inp, out, simulation, TRUE)

SimPower ==
    \E id \in Live(simulation) :
        /\ simulation.manual_power[cluster_array_index(id)] < MaxPower
        /\ SimCall("power", id, 0, power(simulation, id), FALSE)

\* at a count of 0 the subtraction overflows: the call panics or wraps,
\* as the build has it
SimUnpower ==
    \E id \in Live(simulation) :
        /\ simulation.manual_power[cluster_array_index(id)] > -MaxPower
        /\ \/ SimCall("unpower", id, 0, unpower(simulation, id), FALSE)
           \/ /\ unpower_overflows(simulation, id)
              /\ SimCall("unpower", id, 0, simulation, TRUE)

SimTick == SimCall("tick", 0, 0, tick(simulation), FALSE)

NextSim ==
    \/ SimAlloc
    \/ SimFree
    \/ SimAddFlip
    \/ SimRemoveFlip
    \/ SimAddFlop
    \/ SimRemoveFlop
    \/ SimPower
    \/ SimUnpower
    \/ SimTick

SpecSim == Init /\ [][NextSim]_vars

(***************************************************************************)
(* Gates on at most MaxClusters clusters that are never powered by hand:   *)
(* clusters are allocated, Flips and Flops are added, and the Simulation   *)
(* ticks, for as long as one likes.                                        *)
(***************************************************************************)
NextOsc ==
    \/ SimAlloc
    \/ SimAddFlip
    \/ SimAddFlop
    \/ SimTick

SpecOsc == Init /\ [][NextOsc]_vars

\* the event loop requests a redraw on every pass (main.rs 522-524) and every
\* redraw ticks (Circuit::draw, circuit.rs 52): a tick that can be made is made
SpecOscFair == Init /\ [][NextOsc]_vars /\ WF_vars(SimTick)

(***************************************************************************)
(* The InstanceManager and the Handles it gave out: insert, Handle::set,   *)
(* the drop of a Handle and buffer(), in any order, with at most           *)
(* MaxHandles handles minted and MaxQueue updates waiting in the channel.  *)
(***************************************************************************)
MaxHandles == 3
MaxQueue == 3
Values == {"red", "blue"}

\* the call `op` has returned ret; what held before it is in facts
InstCall(op, ret, facts, m) ==
    /\ ~panicked
    /\ manager' = m
    /\ panicked' = m.panicked
    /\ last' = [op |-> op, ret |-> ret, overlap |-> FALSE, mirror |-> NoMirror,
                facts |-> facts, undo |-> NoUndo, at |-> None, dimmed |-> FALSE]
    /\ UNCHANGED <<tiles, components, wires, simulation, next_handle, trip, nops, scene,
                   cursor>>

InstInsert ==
    \E instance \in Values :
        /\ handles.next < MaxHandles
        /\ Len(manager.update_rx) < MaxQueue
        /\ handles' = handle_new(handles, instance)
        /\ InstCall("insert", TRUE, {}, insert(manager, handles.next, instance))

HandleSet ==
    \E id \in handles.held : \E instance \in Values :
        /\ Len(manager.update_rx) < MaxQueue
        /\ handles' = handle_set(handles, id, instance)
        /\ InstCall("set", TRUE, {}, send(manager, UpdateSet(id, instance)))

HandleDrop ==
    \E id \in handles.held :
        /\ Len(manager.update_rx) < MaxQueue
        /\ handles' = handle_drop(handles, id)
        /\ InstCall("drop", TRUE, {}, send(manager, UpdateRemove(id)))

InstBuffer ==
    \E debug \in BOOLEAN :
        /\ handles' = handles
        /\ InstCall("buffer", is_some(buffer(manager, debug).buffer), {},
                    buffer(manager, debug))

NextInst ==
    \/ InstInsert
    \/ HandleSet
    \/ HandleDrop
    \/ InstBuffer

SpecInst == Init /\ [][NextInst]_vars

(***************************************************************************)
(* set and remove applied one update at a time, to any handle id, known    *)
(* to the manager or not.                                                  *)
(***************************************************************************)
HandleIds == 0..(MaxHandles - 1)

Known(m, handle) == \E i \in 1..Len(m.instance_to_handle) : m.instance_to_handle[i] = handle

ApplySet ==
    \E handle \in HandleIds : \E instance \in Values :
        /\ handles' = handles
        /\ InstCall("apply_set", TRUE,
                    IF Known(manager, handle) THEN {"known"} ELSE {"unknown"},
                    set(manager, handle, instance))

ApplyRemove ==
    \E handle \in HandleIds : \E debug \in BOOLEAN :
        /\ handles' = handles
        /\ InstCall("apply_remove", TRUE,
                    IF Known(manager, handle) THEN {"known"} ELSE {"unknown"},
                    remove(manager, handle, debug))

NextUpdates ==
    \/ ApplySet
    \/ ApplyRemove

SpecUpdates == Init /\ [][NextUpdates]_vars

(***************************************************************************)
(* set and remove applied one update at a time to any handle id, and       *)
(* buffer() called between them.                                           *)
(***************************************************************************)
NextApplied ==
    \/ ApplySet
    \/ ApplyRemove
    \/ InstBuffer

SpecApplied == Init /\ [][NextApplied]_vars

(***************************************************************************)
(* A renderer over its InstanceManager: handles are inserted, set and      *)
(* dropped between the frames, and draw() reads len() and then buffer().   *)
(***************************************************************************)
\* RectRenderer::draw and BoardRenderer::draw: instance_count is read, then
\* buffer() is called; the draw call is made unless buffer() returned None
RendererDraw ==
    \E debug \in BOOLEAN :
        /\ handles' = handles
        /\ InstCall("draw",
                    [instance_count |-> len(manager),
                     instance_buffer |-> buffer(manager, debug).buffer],
                    {}, buffer(manager, debug))

NextDraw ==
    \/ InstInsert
    \/ HandleSet
    \/ HandleDrop
    \/ RendererDraw

SpecDraw == Init /\ [][NextDraw]_vars

(***************************************************************************)
(* direction.rs on its own: two directions and a relative are drawn, and   *)
(* rotate or to is applied to them; last.facts holds the arguments and     *)
(* last.ret the value returned.                                            *)
(***************************************************************************)
InitDirection ==
    \E self \in Directions : \E other \in Directions : \E relative \in Relatives :
        /\ tiles = CircuitNew.tiles
        /\ components = CircuitNew.components
        /\ wires = CircuitNew.wires
        /\ simulation = CircuitNew.simulation
        /\ next_handle = CircuitNew.next_handle
        /\ panicked = CircuitNew.panicked
        /\ last = [op |-> "new", ret |-> TRUE, overlap |-> FALSE, mirror |-> NoMirror,
                   facts |-> [self |-> self, other |-> other, relative |-> relative],
                   undo |-> NoUndo, at |-> None, dimmed |-> FALSE]
        /\ trip = [stage |-> "new", s |-> <<0, 0>>, e |-> <<0, 0>>]
        /\ nops = 0
        /\ scene = SceneNew
        /\ manager = InstanceManagerNew
        /\ handles = HandlesNew
        /\ cursor = CursorManagerNew

DirectionCall(op, ret) ==
    /\ last.op = "new"
    /\ last' = [last EXCEPT !.op = op, !.ret = ret]
    /\ UNCHANGED <<tiles, components, wires, simulation, next_handle, panicked, trip,
                   nops, scene, manager, handles, cursor>>

DirectionRotate == DirectionCall("rotate", rotate(last.facts.self, last.facts.relative))

DirectionTo == DirectionCall("to", to(last.facts.self, last.facts.other))

NextDirection ==
    \/ DirectionRotate
    \/ DirectionTo

SpecDirection == InitDirection /\ [][NextDirection]_vars

(***************************************************************************)
(* The CursorManager over a circuit: at most MaxCursorOps wires and gates  *)
(* are placed around the lower middle tile, and between them the cursor    *)
(* moves, a wire placement or a pan is begun and ended, the place type and *)
(* orientation are set, and update() is called with the tile under the     *)
(* cursor (recorded in last.at).                                           *)
(***************************************************************************)
MaxCursorOps == 2
CursorTiles == {<<0, 0>>, <<1, 0>>, <<2, 0>>, <<1, 1>>}
CursorEnds == {<<<<0, 0>>, <<2, 0>>>>, <<<<0, 0>>, <<1, 0>>>>, <<<<1, 0>>, <<1, 1>>>>}
CursorGates == {"Flip", "Flop"} \X {<<1, 0>>} \X {"North", "East"}

\* the CursorManager method `op` has returned and left `cm`
CursorCall(op, cm, at) ==
    /\ ~panicked
    /\ cursor' = cm
    /\ last' = [op |-> op, ret |-> TRUE, overlap |-> FALSE, mirror |-> NoMirror,
                facts |-> {}, undo |-> NoUndo, at |-> at, dimmed |-> FALSE]
    /\ UNCHANGED <<tiles, components, wires, simulation, next_handle, panicked, trip, nops,
                   scene, manager, handles>>

CursorUpdate ==
    \E cursor_tile \in CursorTiles :
        CursorCall("update", update(cursor, cursor_tile, Self), Some(cursor_tile))

StartPan == CursorCall("start_pan", start_pan(cursor), None)

StartPlaceWire ==
    \E cursor_tile \in CursorTiles :
        CursorCall("start_place_wire", start_place_wire(cursor, cursor_tile), None)

CursorEnd == CursorCall("end", cursor_end(cursor), None)

SetPlaceType ==
    \E ty \in ComponentTypes : CursorCall("set_place_type", set_place_type(cursor, ty), None)

SetPlaceOrientation ==
    \E direction \in {"North", "East"} :
        CursorCall("set_place_orientation", set_place_orientation(cursor, direction), None)

NextCursor ==
    \/ PlaceWire(CursorEnds, MaxCursorOps)
    \/ PlaceComponent(CursorGates, MaxCursorOps)
    \/ CursorUpdate
    \/ StartPan
    \/ StartPlaceWire
    \/ CursorEnd
    \/ SetPlaceType
    \/ SetPlaceOrientation

SpecCursor == Init /\ [][NextCursor]_vars

\* no call panics
NoPanic == ~panicked

(***************************************************************************)
(* Observations of the state shared by the properties below.               *)
(***************************************************************************)
\* the cluster ids a component's fields hold
ComponentClusters(component) ==
    IF get_type(component) = "Pin" THEN {component.state.cluster_index}
    ELSE {component.state.input_cluster_index, component.state.output_cluster_index}

\* every cluster id stored in a wire or a component
Referenced ==
    {wires[h].cluster_index : h \in DOMAIN wires}
        \cup UNION {ComponentClusters(components[h]) : h \in DOMAIN components}

Allocated == 0..(simulation.num_clusters - 1)
OnFreeList == SeqToSet(simulation.free_clusters)

\* the faces of component h that carry a cluster id: all four of a Pin and
\* of a Flip, the input and the output face of a Flop
Faces(h) ==
    {ComponentNode(h, d) : d \in
        IF get_type(components[h]) = "Flop"
        THEN {components[h].orientation, opposite(components[h].orientation)}
        ELSE Directions}

\* the graph nodes: every wire and every face
Nodes ==
    {WireNode(h) : h \in DOMAIN wires} \cup UNION {Faces(h) : h \in DOMAIN components}

\* the faces bonded with face f inside its component, f among them: all
\* four of a Pin, the three input faces of a Flip, f alone otherwise
BondGroup(f) ==
    IF get_type(components[f[2]]) = "Pin" THEN Faces(f[2])
    ELSE IF get_type(components[f[2]]) = "Flip" /\ f[3] # components[f[2]].orientation
    THEN Faces(f[2]) \ {ComponentNode(f[2], components[f[2]].orientation)}
    ELSE {f}

\* the faces wire h ends at: the face looking along the wire of a
\* component standing on one of its two end tiles
EndFaces(h) ==
    {ComponentNode(g, direction_of(wires[h])) :
        g \in {k \in DOMAIN components : components[k].position = wires[h].start}}
    \cup
    {ComponentNode(g, opposite(direction_of(wires[h]))) :
        g \in {k \in DOMAIN components : components[k].position = wires[h].end}}

\* the nodes one step from node n
Neighbours(n) ==
    IF IsWireNode(n) THEN EndFaces(n[2])
    ELSE BondGroup(n) \cup {WireNode(h) : h \in {k \in DOMAIN wires : n \in EndFaces(k)}}

\* the nodes connected to a node of `seen`; `frontier` are those of `seen`
\* whose neighbours have not been looked at
RECURSIVE Reach(_, _)
Reach(seen, frontier) ==
    IF frontier = {} THEN seen
    ELSE Reach(seen \cup UNION {Neighbours(n) : n \in frontier},
               (UNION {Neighbours(n) : n \in frontier}) \ seen)

Connected(n) == Reach({n}, {n})

\* the nodes that carry cluster id k
ClusterNodes(k) == {n \in Nodes : cluster_id(Self, n) = k}

\* the ids of the clusters that hold a Pin
PinClusters ==
    {components[h].state.cluster_index :
        h \in {g \in DOMAIN components : get_type(components[g]) = "Pin"}}

(***************************************************************************)
(* C1.  After any sequence of the public mutations, two graph nodes (a     *)
(* wire, or a face of a component) carry the same cluster id if and only   *)
(* if they are connected: a wire with the faces at its two ends, a Pin's   *)
(* four faces with each other, a Flip's three input faces with each other. *)
(***************************************************************************)
C1_SameClusterIffConnected ==
    \* connected nodes carry the same id: each step keeps the id
    /\ \A n \in Nodes : \A m \in Neighbours(n) : cluster_id(Self, m) = cluster_id(Self, n)
    \* nodes with the same id are connected: all to one of them
    /\ \A k \in {cluster_id(Self, n) : n \in Nodes} :
            ClusterNodes(k) \subseteq Connected(CHOOSE n \in ClusterNodes(k) : TRUE)

\* the deletion of what joined them has left three Pins in three clusters
C1_Witness ==
    /\ last.op = "delete_all_at"
    /\ Cardinality(PinClusters) >= 3

(***************************************************************************)
(* C2.  After any sequence of the public mutations, every cluster id       *)
(* stored in a wire or in a component is allocated (below num_clusters)    *)
(* and is not on the free-list.                                            *)
(***************************************************************************)
C2_ReferencedAreLive ==
    \A id \in Referenced : id \in Allocated /\ id \notin OnFreeList

\* a deletion has freed a cluster while wires or components remain
C2_Witness ==
    /\ last.op \in {"delete_component", "delete_all_at"}
    /\ OnFreeList # {}
    /\ Referenced # {}
    /\ DOMAIN wires # {}

(***************************************************************************)
(* C3.  After any sequence of the public mutations, every allocated        *)
(* cluster id that is not on the free-list is stored in at least one wire  *)
(* or component: no cluster id is leaked.                                  *)
(***************************************************************************)
C3_NoLeak == \A id \in Allocated : id \in OnFreeList \/ id \in Referenced

(***************************************************************************)
(* C4.  After any sequence of the public mutations, for every pair of      *)
(* cluster ids (A, B) the count stored at flips[B][A] is the number of     *)
(* Flip components whose input cluster is A and output cluster is B, and   *)
(* flops[B][A] is the number of such Flop components; a pair without such  *)
(* a component has no entry.                                               *)
(***************************************************************************)
\* the components of type ty with input cluster a and output cluster b
Gates(ty, a, b) ==
    {h \in DOMAIN components :
        /\ get_type(components[h]) = ty
        /\ components[h].state.input_cluster_index = a
        /\ components[h].state.output_cluster_index = b}

\* the input clusters of the components of type ty with output cluster b
GateInputs(ty, b) ==
    {components[h].state.input_cluster_index :
        h \in {g \in DOMAIN components :
                /\ get_type(components[g]) = ty
                /\ components[g].state.output_cluster_index = b}}

\* the registry `maps` (flips or flops) counts the components of type ty
Registered(maps, ty) ==
    /\ \A b \in Allocated :
        /\ DOMAIN maps[cluster_array_index(b)] = GateInputs(ty, b)
        /\ \A a \in DOMAIN maps[cluster_array_index(b)] :
                maps[cluster_array_index(b)][a] = Cardinality(Gates(ty, a, b))
    /\ \A h \in DOMAIN components :
            get_type(components[h]) = ty
                => components[h].state.output_cluster_index \in Allocated

C4_RegistryCountsGates ==
    /\ Registered(simulation.flips, "Flip")
    /\ Registered(simulation.flops, "Flop")

\* two gates of one type share their input cluster and their output
\* cluster: the count stored for the pair is 2
C4_Witness ==
    \E b \in Allocated :
        \/ \E a \in DOMAIN simulation.flips[cluster_array_index(b)] :
                simulation.flips[cluster_array_index(b)][a] = 2
        \/ \E a \in DOMAIN simulation.flops[cluster_array_index(b)] :
                simulation.flops[cluster_array_index(b)][a] = 2

(***************************************************************************)
(* C5.  After every public mutation, tile slots and wires agree: the slot  *)
(* d of tile t holds wire W if and only if W exists, t lies on W and the   *)
(* tile next to t in direction d lies on W too.                            *)
(***************************************************************************)
\* wire h runs from tile pos on in direction d
RunsFrom(h, pos, d) ==
    /\ pos \in SeqToSet(tiles_of(wires[h]))
    /\ Step(pos, d) \in SeqToSet(tiles_of(wires[h]))

C5_SlotsAgreeWithWires ==
    /\ \A pos \in DOMAIN tiles : \A d \in Directions :
            is_some(get(tiles[pos].wires, d)) =>
                /\ unwrap(get(tiles[pos].wires, d)) \in DOMAIN wires
                /\ RunsFrom(unwrap(get(tiles[pos].wires, d)), pos, d)
    /\ \A h \in DOMAIN wires : \A pos \in SeqToSet(tiles_of(wires[h])) :
            \A d \in Directions :
                RunsFrom(h, pos, d) =>
                    pos \in DOMAIN tiles /\ get(tiles[pos].wires, d) = Some(h)

\* a wire with a tile between its ends has been placed
C5_Witness ==
    /\ last.op = "place_wire"
    /\ \E h \in DOMAIN wires : Len(tiles_of(wires[h])) = 3

(***************************************************************************)
(* C6.  After every public mutation, a tile has a crossover sprite if and  *)
(* only if it has no component and at least two distinct wires in its      *)
(* slots.                                                                  *)
(***************************************************************************)
\* the wires in the slots of a tile
SlotWires(t) == {unwrap(get(t.wires, d)) : d \in {e \in Directions : is_some(get(t.wires, e))}}

C6_CrossoverIffTwoWires ==
    \A pos \in DOMAIN tiles :
        tiles[pos].crossover <=>
            (~is_some(tiles[pos].component) /\ Cardinality(SlotWires(tiles[pos])) >= 2)

\* a component was deleted from a tile where two wires cross again
C6_Witness ==
    /\ last.op = "delete_component"
    /\ \E pos \in DOMAIN tiles : tiles[pos].crossover

(***************************************************************************)
(* C7.  After any sequence of the public mutations, no two wires have the  *)
(* same (start, end), and no two wires run over the same step between two  *)
(* tiles, so no two claim the same slot of a tile.                         *)
(***************************************************************************)
C7_NoDuplicateWires ==
    \A h \in DOMAIN wires : \A g \in DOMAIN wires \ {h} :
        /\ <<wires[h].start, wires[h].end>> # <<wires[g].start, wires[g].end>>
        /\ Steps(wires[h].start, wires[h].end) \cap Steps(wires[g].start, wires[g].end) = {}

\* a wire was placed along a wire that was there already
C7_Witness ==
    /\ last.op = "place_wire"
    /\ last.ret
    /\ last.overlap
    /\ Cardinality(DOMAIN wires) >= 2

(***************************************************************************)
(* C8.  When place_wire or place_component returns false, the circuit is   *)
(* unchanged: no tile, wire, component, cluster, free-list entry or        *)
(* flip/flop registration is added, removed or modified.                   *)
(***************************************************************************)
C8_RefusedPlaceChangesNothing ==
    [][(last'.op \in {"place_wire", "place_component"} /\ ~last'.ret)
            => UNCHANGED <<tiles, components, wires, simulation, next_handle, panicked>>]_vars

\* place_wire has refused a wire on a grid that holds a component
C8_Witness ==
    /\ last.op = "place_wire"
    /\ ~last.ret
    /\ DOMAIN components # {}

(***************************************************************************)
(* C9.  From the empty circuit, place_wire(s, e), delete_all_at(s) and     *)
(* delete_all_at(e) leave the grid empty (no component, no wire, no slot   *)
(* set, no crossover) and every allocated cluster id on the free-list.     *)
(***************************************************************************)
C9_RoundTripLeavesNothing ==
    trip.stage = "done" =>
        /\ DOMAIN components = {}
        /\ DOMAIN wires = {}
        /\ \A pos \in DOMAIN tiles : tiles[pos] = TileDefault
        /\ Allocated \subseteq OnFreeList

\* the three calls have been made, and clusters had been allocated
C9_Witness ==
    /\ trip.stage = "done"
    /\ Allocated # {}

(***************************************************************************)
(* C10.  place_wire(s, e) and place_wire(e, s), from the same circuit,     *)
(* return the same boolean and leave the same components on the same       *)
(* tiles, the same wires (start, end) in the same tile slots, and the      *)
(* same grouping of wires and faces into clusters; the ids of the          *)
(* clusters may differ.                                                    *)
(***************************************************************************)
C10_OrderIndependentUpToIds ==
    last.op = "place_wire" =>
        last.mirror.ret /\ last.mirror.layout /\ last.mirror.partition

\* a wire was placed, and with its ends exchanged the clusters would have
\* got other ids
C10_Witness ==
    /\ last.op = "place_wire"
    /\ last.ret
    /\ ~last.mirror.ids

\* C10 as stated: the two calls also give every wire and face the same
\* cluster id
C10_OrderIndependent ==
    last.op = "place_wire" =>
        last.mirror.ret /\ last.mirror.layout /\ last.mirror.ids

(***************************************************************************)
(* C11.  From a state where tile t hosts no component,                     *)
(* place_component(Pin, t, East) followed by delete_component(t) is a      *)
(* no-op (the components, the wires, the tile slots, the cluster of every  *)
(* wire and face and the power of the clusters are as before) if and only  *)
(* if no wire crosses t.                                                   *)
(***************************************************************************)
\* a Pin was placed on a tile that had no component
PinPlaced == last.op = "place_component" /\ last.ret /\ "Pin" \in last.facts

\* delete_component on the tile of the Pin gives the circuit of before back
NoOp ==
    /\ last.undo.depots
    /\ last.undo.tiles
    /\ last.undo.layout
    /\ last.undo.ids
    /\ last.undo.partition
    /\ last.undo.power

C11_PinRoundTripNoOpIffNoWire ==
    PinPlaced => (NoOp <=> "wired" \notin last.facts)

\* a Pin was placed on a tile two wires cross; deleting it restores the
\* wires and their grouping, but not the power of the clusters
C11_Witness ==
    /\ PinPlaced
    /\ "wired" \in last.facts
    /\ last.undo.layout
    /\ last.undo.partition
    /\ ~last.undo.power

(***************************************************************************)
(* C12.  can_place_wire rejects every segment with a Flop strictly between *)
(* its ends and every segment with a Flop at an end whose orientation is   *)
(* perpendicular to the wire; a Flop at an end, in line with the wire,     *)
(* does not by itself cause rejection.  So no wire is ever attached to a   *)
(* side face of a Flop, and no call panics.                                *)
(***************************************************************************)
\* the facts that make can_place_wire refuse a segment
Refusals == {"flop_inside", "flop_side", "flip_inside_parallel"}

\* a wire runs from a side face of a Flop
WireOnFlopSide ==
    \E h \in DOMAIN components :
        /\ get_type(components[h]) = "Flop"
        /\ \E d \in {left(components[h].orientation), right(components[h].orientation)} :
                \/ WireFrom(Self, components[h].position, d)
                \/ is_some(get(TileAt(Self, components[h].position).wires, d))

C12_FlopRejectsInsideAndSide ==
    /\ last.op = "place_wire" =>
        /\ last.facts \cap {"flop_inside", "flop_side"} # {} => ~last.ret
        /\ "flop_end" \in last.facts /\ last.facts \cap Refusals = {} => last.ret
    /\ ~WireOnFlopSide
    /\ ~panicked

\* a segment that ends on a side face of a Flop, and has nothing else
\* against it, was refused
C12_Witness ==
    /\ last.op = "place_wire"
    /\ ~last.ret
    /\ last.facts \cap Refusals = {"flop_side"}

(***************************************************************************)
(* C13.  For a Flip on the segment, can_place_wire rejects exactly when    *)
(* the Flip is strictly between the ends and the wire is parallel to its   *)
(* orientation; a Flip at an end never causes rejection.                   *)
(***************************************************************************)
C13_FlipRejectsInsideParallel ==
    last.op = "place_wire" =>
        /\ "flip_inside_parallel" \in last.facts => ~last.ret
        /\ last.facts \cap Refusals = {} => last.ret

\* a segment through a Flip, along its orientation, was refused, with
\* nothing else against it
C13_Witness ==
    /\ last.op = "place_wire"
    /\ ~last.ret
    /\ last.facts \cap Refusals = {"flip_inside_parallel"}

(***************************************************************************)
(* C14.  can_place_component(type, pos, orient) is true iff the tile has   *)
(* no component and type is Pin, or type is Flip and the tile has no wire  *)
(* in slot orient, or type is Flop and the tile has no wire at all; also   *)
(* on a tile that was occupied and has been emptied by deletions.          *)
(***************************************************************************)
C14_CanPlaceComponent ==
    last.op = "place_component" =>
        (last.ret <=>
            /\ "occupied" \notin last.facts
            /\ \/ "Pin" \in last.facts
               \/ "Flip" \in last.facts /\ "wire_ahead" \notin last.facts
               \/ "Flop" \in last.facts /\ "wired" \notin last.facts)

\* a Flop was placed on a tile that the map has an entry for, left empty
\* by deletions
C14_Witness ==
    /\ last.op = "place_component"
    /\ last.ret
    /\ {"Flop", "emptied"} \subseteq last.facts

(***************************************************************************)
(* C15: tick is one indivisible pass over all clusters.  With P the        *)
(* is_powered values before the call, after it was_powered is P and every  *)
(* cluster c is powered exactly when its manual power count is above zero, *)
(* or some source registered in flips[c] is unpowered in P, or some source *)
(* registered in flops[c] is powered in P; the order in which the clusters *)
(* are visited makes no difference.                                        *)
(***************************************************************************)
Clusters(sim) == 0..(sim.num_clusters - 1)

\* the closed form, read off the Simulation `before` the tick
TickOf(before, i) ==
    \/ before.manual_power[i + 1] # 0
    \/ \E src \in DOMAIN before.flips[i + 1] : ~before.is_powered[src + 1]
    \/ \E src \in DOMAIN before.flops[i + 1] : before.is_powered[src + 1]

Ticked(before, after) ==
    /\ after.was_powered = before.is_powered
    /\ \A i \in Clusters(before) : after.is_powered[i + 1] = TickOf(before, i)
    /\ after.num_clusters = before.num_clusters
    /\ after.flips = before.flips
    /\ after.flops = before.flops
    /\ after.manual_power = before.manual_power
    /\ after.free_clusters = before.free_clusters

C15_TickIsOnePass == [][last'.op \in {"tick", "draw"} => Ticked(simulation, simulation')]_vars

\* a tick has just run on two clusters, both unpowered before it, where the
\* second inverts into the first and the first feeds the second: the first is
\* now powered and the second, which saw the first as it was, is not
C15_Witness ==
    /\ last.op = "tick"
    /\ simulation.num_clusters = 2
    /\ 0 \in DOMAIN simulation.flops[2]
    /\ 1 \in DOMAIN simulation.flips[1]
    /\ simulation.manual_power = <<0, 0>>
    /\ simulation.was_powered = <<FALSE, FALSE>>
    /\ simulation.is_powered = <<TRUE, FALSE>>

(***************************************************************************)
(* C16: a cluster fed back into itself by a flip, unpowered at first and   *)
(* without manual power, is powered after every odd tick and unpowered     *)
(* after every even tick, for as long as it is ticked; once the flip is    *)
(* removed, one more tick leaves it unpowered and free_cluster succeeds.   *)
(***************************************************************************)
C16_FeedbackFlipOscillates ==
    /\ scene.stage = "feedback" =>
            /\ ~panicked
            /\ is_powered(simulation, 0) = (scene.ticks = 1)
    /\ scene.stage = "feedback_settled" => ~is_powered(simulation, 0)
    /\ scene.stage = "feedback_freed" => ~panicked /\ 0 \in OnFreeList

\* the flip was removed while the cluster was powered, a tick has unpowered
\* it and the cluster has been freed
C16_Witness ==
    /\ scene.stage = "feedback_freed"
    /\ ~panicked
    /\ was_powered(simulation, 0)
    /\ ~is_powered(simulation, 0)
    /\ simulation.free_clusters = <<0>>

(***************************************************************************)
(* C17: two clusters a and b, both unpowered, cross-coupled by             *)
(* add_flip(a, b) and add_flip(b, a) with no tick in between, are astable: *)
(* after every tick they have the same value, powered after odd ticks and  *)
(* unpowered after even ticks, forever.                                    *)
(***************************************************************************)
C17_CrossCoupledAstable ==
    scene.stage = "astable" =>
        /\ ~panicked
        /\ is_powered(simulation, 0) = (scene.ticks = 1)
        /\ is_powered(simulation, 1) = (scene.ticks = 1)

\* after an even number of ticks, two at least: both were powered and are not
C17_Witness ==
    /\ scene = [stage |-> "astable", ticks |-> 2]
    /\ simulation.was_powered = <<TRUE, TRUE>>
    /\ simulation.is_powered = <<FALSE, FALSE>>

(***************************************************************************)
(* C18: add_flip(a, b), one tick, then add_flip(b, a), with a and b        *)
(* unpowered at first: after every later tick a is unpowered and b is      *)
(* powered, as long as no manual power is applied.                         *)
(***************************************************************************)
C18_LateSecondFlipStable ==
    scene.stage = "stable" /\ scene.ticks > 0 =>
        /\ ~panicked
        /\ ~is_powered(simulation, 0)
        /\ is_powered(simulation, 1)

\* two ticks or more after the second flip
C18_Witness ==
    /\ scene = [stage |-> "stable", ticks |-> 2]
    /\ simulation.is_powered = <<FALSE, TRUE>>
    /\ simulation.was_powered = <<FALSE, TRUE>>

(***************************************************************************)
(* C19: from the stable latch (a unpowered, b powered), power(a), two      *)
(* ticks and unpower(a) flip the latch: after every later tick a is        *)
(* powered and b is unpowered; then both flips can be removed and both     *)
(* clusters freed.                                                         *)
(***************************************************************************)
TearDown == {"down1", "down2", "down3", "down4"}

C19_PulseFlipsLatch ==
    /\ scene.stage = "flipped" /\ scene.ticks > 0 =>
            /\ ~panicked
            /\ is_powered(simulation, 0)
            /\ ~is_powered(simulation, 1)
    /\ scene.stage \in TearDown => ~panicked
    /\ scene.stage = "down4" => {0, 1} \subseteq OnFreeList

\* the whole of it: flipped, ticked, flips removed, both clusters freed
C19_Witness ==
    /\ scene.stage = "down4"
    /\ ~panicked
    /\ simulation.is_powered = <<TRUE, FALSE>>
    /\ simulation.free_clusters = <<0, 1>>

(***************************************************************************)
(* C20: from the stable latch (a unpowered, b powered), power(a), exactly  *)
(* one tick and unpower(a) make the latch astable: on the ticks that       *)
(* follow a and b are both unpowered, then both powered, alternating with  *)
(* every tick, forever.                                                    *)
(***************************************************************************)
C20_ShortPulseAstable ==
    scene.stage = "short" /\ scene.ticks > 0 =>
        /\ ~panicked
        /\ is_powered(simulation, 0) = (scene.ticks = 2)
        /\ is_powered(simulation, 1) = (scene.ticks = 2)

\* after the second tick, or a later even one: both powered
C20_Witness ==
    /\ scene = [stage |-> "short", ticks |-> 2]
    /\ simulation.is_powered = <<TRUE, TRUE>>
    /\ simulation.was_powered = <<FALSE, FALSE>>

(***************************************************************************)
(* C21: manual power is level-sensitive.  After every tick made while the  *)
(* manual power count of a cluster is not zero the cluster is powered,     *)
(* whatever its flips and flops say; after a tick made with the count at   *)
(* zero the cluster is what its flips and flops alone say.  (tick leaves   *)
(* manual_power alone and leaves the values it read in was_powered.)       *)
(***************************************************************************)
InputsSay(sim, i) ==
    \/ \E src \in DOMAIN sim.flips[i + 1] : ~sim.was_powered[src + 1]
    \/ \E src \in DOMAIN sim.flops[i + 1] : sim.was_powered[src + 1]

C21_ManualPowerIsLevel ==
    last.op \in {"tick", "draw"} =>
        \A i \in Clusters(simulation) :
            IF simulation.manual_power[i + 1] # 0
            THEN simulation.is_powered[i + 1]
            ELSE simulation.is_powered[i + 1] = InputsSay(simulation, i)

\* the first cluster is held by manual power through a second tick although
\* its only input, a flip from the powered second cluster, says unpowered
C21_Witness ==
    /\ last.op = "tick"
    /\ simulation.num_clusters = 2
    /\ simulation.manual_power[1] # 0
    /\ simulation.was_powered = <<TRUE, TRUE>>
    /\ simulation.is_powered[1]
    /\ DOMAIN simulation.flips[1] = {1}
    /\ DOMAIN simulation.flops[1] = {}
    /\ ~InputsSay(simulation, 0)

(***************************************************************************)
(* C22: alloc_cluster returns a cluster with every field at its default:   *)
(* is_powered and was_powered false, flips and flops empty, manual_power   *)
(* 0, whether the arrays grow or the id comes off the free-list.  The id   *)
(* returned is the one that is in use after the call and was not before.   *)
(***************************************************************************)
AtDefaults(sim, id) ==
    /\ ~sim.is_powered[id + 1]
    /\ ~sim.was_powered[id + 1]
    /\ DOMAIN sim.flips[id + 1] = {}
    /\ DOMAIN sim.flops[id + 1] = {}
    /\ sim.manual_power[id + 1] = 0

C22_AllocReturnsDefaults ==
    [][last'.op = "alloc_cluster" =>
            \A id \in Live(simulation') \ Live(simulation) : AtDefaults(simulation', id)]_vars

(***************************************************************************)
(* C23: when insert(value) returns, the value has been appended to the     *)
(* instance array (len() is one more than before), handle_to_instance and  *)
(* instance_to_handle record the new handle at that index, and the buffer  *)
(* is marked for an update.                                                *)
(***************************************************************************)
Recorded(m, id, instance) ==
    /\ id \in DOMAIN m.handle_to_instance
    /\ m.handle_to_instance[id] < Len(m.instances)
    /\ m.instances[m.handle_to_instance[id] + 1] = instance
    /\ m.instance_to_handle[m.handle_to_instance[id] + 1] = id

C23_InsertAppends ==
    [][last'.op = "insert" =>
            /\ len(manager') = len(manager) + 1
            /\ Recorded(manager', handles.next, handles'.reference[handles.next])
            /\ manager'.buffer_update]_vars

(***************************************************************************)
(* C24: buffer() returns None whenever the instance array is empty once    *)
(* the channel has been drained, also when instances had been inserted     *)
(* (and a buffer allocated) and all their handles dropped since.           *)
(***************************************************************************)
C24_BufferNoneWhenEmpty ==
    last.op = "buffer" /\ ~panicked /\ len(manager) = 0 => ~last.ret

(***************************************************************************)
(* C25: a Remove update for a handle the manager does not know (never set, *)
(* or removed already) is a harmless no-op: the instance array and both    *)
(* mappings stay as they are and nothing panics; a Set for an unknown      *)
(* handle appends.                                                         *)
(***************************************************************************)
SameArrays(before, after) ==
    /\ after.instances = before.instances
    /\ after.instance_to_handle = before.instance_to_handle
    /\ after.handle_to_instance = before.handle_to_instance

Appended(before, after) ==
    /\ \E instance \in Values : after.instances = Append(before.instances, instance)
    /\ \E handle \in HandleIds :
            /\ ~Known(before, handle)
            /\ after.instance_to_handle = Append(before.instance_to_handle, handle)
            /\ after.handle_to_instance =
                    map_insert(before.handle_to_instance, handle, Len(before.instances))

ArrayHandles(m) == {m.instance_to_handle[i] : i \in 1..Len(m.instance_to_handle)}

\* the array is a map from handle to value, and that map is `reference`
ArrayIsMap(m, reference) ==
    /\ ~m.panicked
    /\ Len(m.instances) = Len(m.instance_to_handle)
    /\ Cardinality(ArrayHandles(m)) = Len(m.instance_to_handle)
    /\ ArrayHandles(m) = DOMAIN reference
    /\ \A i \in 1..Len(m.instance_to_handle) :
            m.instances[i] = reference[m.instance_to_handle[i]]

C26_HandlesAreStable ==
    /\ ArrayIsMap(handle_updates(manager, TRUE), handles.reference)
    /\ DOMAIN handles.reference = handles.held

\* three handles were given out and the first was dropped: the last record
\* moved into its place, and the two left hold different values
C26_Witness ==
    /\ last.op = "buffer"
    /\ handles.held = {1, 2}
    /\ manager.instance_to_handle = <<2, 1>>
    /\ manager.instances = <<"red", "blue">>
    /\ manager.written = manager.instances

(***************************************************************************)
(* C27: Depot handles are never reused.  NEXT_HANDLE only grows and the    *)
(* handles minted so far are those below it; every handle that a call      *)
(* adds to a depot was minted during that call, so it differs from every   *)
(* handle returned earlier; a minted handle that resolves in no depot      *)
(* (its item was removed) never resolves again; and no handle is valid in  *)
(* both the wire depot and the component depot.                            *)
(***************************************************************************)
Resolving(ws, cs) == DOMAIN ws \cup DOMAIN cs

Flops == {h \in DOMAIN components : get_type(components[h]) = "Flop"}

\* a face of a Flop and the wires that end at it
Side(face) == {face} \cup {WireNode(h) : h \in {k \in DOMAIN wires : face \in EndFaces(k)}}

Apart(h) ==
    \A n \in Side(ComponentNode(h, opposite(components[h].orientation))) :
        \A m \in Side(ComponentNode(h, components[h].orientation)) :
            cluster_id(Self, n) = cluster_id(Self, m) => m \in Connected(n)

C28_FlopIsBarrier ==
    /\ ~panicked
    /\ last.op = "place_component" /\ {"Flop", "wired"} \subseteq last.facts => ~last.ret
    /\ \A h \in Flops : Apart(h)

\* a Flop facing East on the lower middle tile, a wire placed on either
\* side of it, and nothing else: two wires in two clusters
C28_Witness ==
    /\ last.op = "place_wire"
    /\ last.ret
    /\ \E h \in Flops : components[h].position = <<1, 0>> /\ components[h].orientation = "East"
    /\ {<<wires[h].start, wires[h].end>> : h \in DOMAIN wires}
            = {<<<<0, 0>>, <<1, 0>>>>, <<<<1, 0>>, <<2, 0>>>>}
    /\ Cardinality({wires[h].cluster_index : h \in DOMAIN wires}) = 2

\* the ring is closed: the wires on the two sides of the Flop are in one
\* cluster, joined by the path around the grid
FlopRingClosed ==
    /\ Cardinality(DOMAIN wires) = 5
    /\ Flops # {}
    /\ Cardinality({wires[h].cluster_index : h \in DOMAIN wires}) = 1

(***************************************************************************)
(* C29: place_component(Pin, pos, _) on a tile that wires pass straight    *)
(* through replaces each such wire by two wires that meet at pos, removes  *)
(* the crossover sprite of pos, and leaves the Pin, the new wires and      *)
(* everything that was connected to one of the crossing wires in one       *)
(* cluster; every other cluster id in use stays in use on the same wires   *)
(* and faces, and exactly the clusters the merge made redundant are freed: *)
(* the ids in use afterwards are those in use before without the clusters  *)
(* of the crossing wires, and the one the Pin is in.                       *)
(***************************************************************************)
\* the tiles where `after` has a Pin and `before` has no component
NewPins(before, after) ==
    {after.components[h].position : h \in ComponentsOn(after, "Pin", Grid)}
        \ {before.components[h].position : h \in DOMAIN before.components}

\* the wires of c that pass through pos, by their ends
Through(c, pos) ==
    {<<c.wires[h].start, c.wires[h].end>> :
        h \in {g \in DOMAIN c.wires : pos \in Inside(c.wires[g].start, c.wires[g].end)}}

\* the cluster ids of the wires of c that pass through pos
ThroughClusters(c, pos) ==
    {c.wires[h].cluster_index :
        h \in {g \in DOMAIN c.wires : pos \in Inside(c.wires[g].start, c.wires[g].end)}}

WirePairs(c) == {<<c.wires[h].start, c.wires[h].end>> : h \in DOMAIN c.wires}

Halves(pairs, pos) == UNION {{<<se[1], pos>>, <<pos, se[2]>>} : se \in pairs}

\* the cluster id of the Pin on pos
PinCluster(c, pos) ==
    c.components[CHOOSE h \in ComponentsOn(c, "Pin", {pos}) : TRUE].state.cluster_index

PinSplits(before, after, pos) ==
    WirePairs(after) = (WirePairs(before) \ Through(before, pos))
                            \cup Halves(Through(before, pos), pos)

PinJoins(before, after, pos, k) ==
    /\ \A se \in Halves(Through(before, pos), pos) : <<<<"W", se[1], se[2]>>, k>> \in Labelled(after)
    /\ \A l \in Labelled(before) :
            l[2] \in ThroughClusters(before, pos) /\ l[1] \in {m[1] : m \in Labelled(after)}
                => <<l[1], k>> \in Labelled(after)

PinKeepsOthers(before, after, pos) ==
    \A l \in Labelled(before) : l[2] \notin ThroughClusters(before, pos) => l \in Labelled(after)

PinFrees(before, after, pos, k) ==
    Live(after.simulation) = (Live(before.simulation) \ ThroughClusters(before, pos)) \cup {k}

PinOnWires(before, after, pos) ==
    /\ ~after.panicked
    /\ PinSplits(before, after, pos)
    /\ ~TileAt(after, pos).crossover
    /\ PinJoins(before, after, pos, PinCluster(after, pos))
    /\ PinKeepsOthers(before, after, pos)
    /\ PinFrees(before, after, pos, PinCluster(after, pos))

C29_PinOnCrossingWires ==
    [][last'.op = "place_component" /\ last'.ret /\ "Pin" \in last'.facts =>
            \A pos \in NewPins(Self, Self') :
                Through(Self, pos) # {} => PinOnWires(Self, Self', pos)]_vars

(***************************************************************************)
(* C30: delete_component(pos) on a Pin removes the Pin and the wires in    *)
(* the four slots of pos.  On each axis where a wire was attached on both  *)
(* sides it inserts exactly one wire, from the far end of one to the far   *)
(* end of the other: the components at the two far ends are still in one   *)
(* cluster, and pos is a tile that this wire passes through (with the      *)
(* crossover sprite when both axes were rejoined).  A component at the far *)
(* end of a wire that had no partner on its axis is afterwards in the      *)
(* cluster of another far component only if some other path joins them.    *)
(***************************************************************************)
\* the tiles where `before` has a Pin and `after` has no component
DeletedPins(before, after) ==
    {before.components[h].position : h \in ComponentsOn(before, "Pin", Grid)}
        \ {after.components[h].position : h \in DOMAIN after.components}

\* the directions in which a wire is attached to the tile pos
Slots(c, pos) == {d \in Directions : is_some(get(TileAt(c, pos).wires, d))}

\* the wire in slot d of pos
SlotWire(c, pos, d) == c.wires[unwrap(get(TileAt(c, pos).wires, d))]

\* the end of the wire in slot d of pos that is not pos
Far(c, pos, d) ==
    IF SlotWire(c, pos, d).start = pos THEN SlotWire(c, pos, d).end
    ELSE SlotWire(c, pos, d).start

\* the face that the component at the far end of slot d turns to pos
FarFace(c, pos, d) ==
    ComponentNode(CHOOSE h \in DOMAIN c.components :
                        c.components[h].position = Far(c, pos, d),
                  opposite(d))

\* the axes of pos, named by one direction, with a wire on both sides
Rejoined(c, pos) == {d \in {"North", "East"} : {d, opposite(d)} \subseteq Slots(c, pos)}

\* the wires of c by their two ends, in either order
Ends(c) == {{c.wires[h].start, c.wires[h].end} : h \in DOMAIN c.wires}

PinWiresReplaced(before, after, pos) ==
    /\ Ends(after) =
            (Ends(before) \ {{pos, Far(before, pos, d)} : d \in Slots(before, pos)})
                \cup {{Far(before, pos, d), Far(before, pos, opposite(d))} :
                            d \in Rejoined(before, pos)}
    /\ Cardinality(DOMAIN after.wires) =
            Cardinality(DOMAIN before.wires) - Cardinality(Slots(before, pos))
                + Cardinality(Rejoined(before, pos))

PinTilePassThrough(before, after, pos) ==
    /\ ~is_some(TileAt(after, pos).component)
    /\ Slots(after, pos) =
            UNION {{d, opposite(d)} : d \in Rejoined(before, pos)}
    /\ \A d \in Slots(after, pos) :
            {SlotWire(after, pos, d).start, SlotWire(after, pos, d).end}
                = {Far(before, pos, d), Far(before, pos, opposite(d))}
    /\ TileAt(after, pos).crossover <=> Rejoined(before, pos) = {"North", "East"}

FarStayJoined(before, after, pos) ==
    \A d \in Rejoined(before, pos) :
        cluster_id(after, FarFace(before, pos, d))
            = cluster_id(after, FarFace(before, pos, opposite(d)))

C30_DeletePinRejoinsWires ==
    [][last'.op = "delete_component" =>
            \A pos \in DeletedPins(Self, Self') :
                /\ ~panicked'
                /\ PinWiresReplaced(Self, Self', pos)
                /\ PinTilePassThrough(Self, Self', pos)
                /\ FarStayJoined(Self, Self', pos)
                /\ \A d \in Slots(Self, pos) \ {e \in Directions : opposite(e) \in Slots(Self, pos)} :
                      \A e \in Slots(Self, pos) \ {d} :
                        cluster_id(Self', FarFace(Self, pos, d))
                                = cluster_id(Self', FarFace(Self, pos, e))
                            => FarFace(Self, pos, e) \in Connected(FarFace(Self, pos, d))']_vars

\* two wires crossed on (1,1), a Pin was placed on the crossing (which cut
\* both in two) and has been deleted again: the two wires are back, the
\* tile has the crossover sprite, and the handles of the Pin and of the
\* four halves have been used up
C30_Witness ==
    /\ ~panicked
    /\ last.op = "delete_component"
    /\ Ends(Self) = {{<<0, 1>>, <<2, 1>>}, {<<1, 0>>, <<1, 2>>}}
    /\ Cardinality(DOMAIN wires) = 2
    /\ ~is_some(TileAt(Self, <<1, 1>>).component)
    /\ TileAt(Self, <<1, 1>>).crossover
    /\ Cardinality({wires[h].cluster_index : h \in DOMAIN wires}) = 2
    /\ next_handle >= 13

(***************************************************************************)
(* C31: after delete_all_at(pos) the tile pos has no component and its     *)
(* four wire slots are empty; every wire that touched pos, ending there or *)
(* passing through, is gone from the slots of every tile; the depots have  *)
(* lost exactly those wires and the component of pos; and every other      *)
(* wire and component is still there with the ends, position, type and     *)
(* orientation it had.                                                     *)
(***************************************************************************)
\* the handles of the wires of c that cover pos
Touching(c, pos) == {h \in DOMAIN c.wires : pos \in SeqToSet(tiles_of(c.wires[h]))}

\* the handles of the components of c on pos
Standing(c, pos) == {h \in DOMAIN c.components : c.components[h].position = pos}

\* the wire handles held in the slots of any tile of c
InSlots(c) ==
    UNION {{unwrap(get(c.tiles[t].wires, d)) :
                d \in {e \in Directions : is_some(get(c.tiles[t].wires, e))}} :
           t \in DOMAIN c.tiles}

TileCleared(after, pos) ==
    /\ ~is_some(TileAt(after, pos).component)
    /\ \A d \in Directions : ~is_some(get(TileAt(after, pos).wires, d))

OnlyTouchingRemoved(before, after, pos) ==
    /\ InSlots(after) \cap Touching(before, pos) = {}
    /\ DOMAIN after.wires = DOMAIN before.wires \ Touching(before, pos)
    /\ DOMAIN after.components = DOMAIN before.components \ Standing(before, pos)
    /\ \A h \in DOMAIN after.wires :
            /\ after.wires[h].start = before.wires[h].start
            /\ after.wires[h].end = before.wires[h].end
    /\ \A h \in DOMAIN after.components :
            /\ after.components[h].position = before.components[h].position
            /\ after.components[h].ty = before.components[h].ty
            /\ after.components[h].orientation = before.components[h].orientation

C31_DeleteAllAtClearsTile ==
    [][last'.op = "delete_all_at" =>
            /\ ~panicked'
            /\ TileCleared(Self', unwrap(last'.at))
            /\ OnlyTouchingRemoved(Self, Self', unwrap(last'.at))]_vars

\* delete_all_at on the crossing of two wires has removed both, and the
\* four Pins at their ends are all that is left
C31_Witness ==
    /\ ~panicked
    /\ last.op = "delete_all_at"
    /\ last.at = Some(<<1, 1>>)
    /\ nops = 3
    /\ DOMAIN wires = {}
    /\ {components[h].position : h \in DOMAIN components}
            = {<<0, 1>>, <<2, 1>>, <<1, 0>>, <<1, 2>>}

(***************************************************************************)
(* C32: a Flop and a Flip wired in a ring, without manual power.  Cluster  *)
(* a is the Flop's output and the Flip's input, cluster b the Flip's       *)
(* output and the Flop's input.  Every tick gives a what b had and gives b *)
(* the opposite of what a had, so each of the two clusters changes on      *)
(* every second tick: the ring oscillates with period 4, not 2.            *)
(***************************************************************************)
\* sim holds exactly the ring: a Flop from b to a, a Flip from a to b
Ring(sim, a, b) ==
    /\ a # b
    /\ {a, b} \subseteq Live(sim)
    /\ DOMAIN sim.flops[a + 1] = {b} /\ DOMAIN sim.flips[a + 1] = {}
    /\ DOMAIN sim.flips[b + 1] = {a} /\ DOMAIN sim.flops[b + 1] = {}
    /\ sim.manual_power[a + 1] = 0 /\ sim.manual_power[b + 1] = 0

\* the tick just made has changed is_powered of cluster i
Toggled(sim, i) == sim.is_powered[i + 1] # sim.was_powered[i + 1]

RingStep(before, after, a, b) ==
    /\ after.is_powered[a + 1] = before.is_powered[b + 1]
    /\ after.is_powered[b + 1] = ~before.is_powered[a + 1]

\* two ticks in a row negate both clusters (was_powered of `before` is
\* is_powered before the first of the two)
RingTwoSteps(before, after, a, b) ==
    /\ after.is_powered[a + 1] = ~before.was_powered[a + 1]
    /\ after.is_powered[b + 1] = ~before.was_powered[b + 1]

C32_RingHasPeriodFour ==
    [][last'.op = "tick" =>
            \A a, b \in Clusters(simulation) :
                Ring(simulation, a, b) =>
                    /\ RingStep(simulation, simulation', a, b)
                    /\ Toggled(simulation', a) # Toggled(simulation', b)
                    /\ last.op = "tick" => RingTwoSteps(simulation, simulation', a, b)]_vars

\* the ring after two ticks from rest: both clusters powered, a only since
\* the tick just made
C32_Witness ==
    /\ last.op = "tick"
    /\ \E a, b \in Clusters(simulation) :
            /\ Ring(simulation, a, b)
            /\ simulation.is_powered[a + 1] /\ simulation.is_powered[b + 1]
            /\ ~simulation.was_powered[a + 1] /\ simulation.was_powered[b + 1]

\* the statement as the specification has it: from some tick on, every
\* tick changes is_powered of the output cluster (checked on the runs that
\* keep ticking, SpecOscFair)
C32_EventuallyPeriodTwo ==
    \E out \in 0..(MaxClusters - 1) :
        <>[](last.op = "tick" /\ (\E inp \in Clusters(simulation) :
                                        Ring(simulation, inp, out) \/ Ring(simulation, out, inp))
                => Toggled(simulation, out))

(***************************************************************************)
(* C33: after every CursorManager::update the outline is blue if and only  *)
(* if the placement under the cursor is legal: can_place_wire(start, end)  *)
(* while a wire is being placed, and in every other state                  *)
(* can_place_component(place type, cursor tile, place orientation), for    *)
(* every place type, Pin included; otherwise it is red.                    *)
(***************************************************************************)
\* what the circuit says of the placement the cursor shows
Legal(cm, cursor_tile, c) ==
    IF cm.current_state[1] = "PlaceWire"
    THEN can_place_wire(c, cm.current_state[2], cm.current_state[3])
    ELSE can_place_component(c, place_type(cm), cursor_tile, cm.place_orientation)

C33_OutlineShowsLegality ==
    last.op = "update" =>
        /\ cursor.outline_color \in {"blue", "red"}
        /\ cursor.outline_color = "blue" <=> Legal(cursor, unwrap(last.at), Self)

(***************************************************************************)
(* C34: removing a wire that lay on a cycle, so that the components at its *)
(* two ends are still connected by another path, splits nothing: no        *)
(* cluster is allocated and no wire or component face changes its cluster  *)
(* id.  Stated for delete_all_at on a tile that one wire passes through    *)
(* and that holds no component, which removes that wire and nothing else.  *)
(***************************************************************************)
\* the faces at the two ends of each wire of `hs` are still connected to
\* each other
StillJoined(hs) ==
    \A h \in hs : \A f \in EndFaces(h) : \A g \in EndFaces(h) : g \in Connected(f)'

NothingSplit(before, after, pos) ==
    /\ after.simulation.num_clusters = before.simulation.num_clusters
    /\ after.simulation.free_clusters = before.simulation.free_clusters
    /\ Labelled(after) =
            {l \in Labelled(before) : l[1] \notin {<<"W", se[1], se[2]>> : se \in Through(before, pos)}}

C34_CycleWireRemovalKeepsCluster ==
    [][/\ last'.op = "delete_all_at"
       /\ Cardinality(Touching(Self, unwrap(last'.at))) = 1
       /\ Standing(Self, unwrap(last'.at)) = {}
       /\ StillJoined(Touching(Self, unwrap(last'.at)))
       => NothingSplit(Self, Self', unwrap(last'.at))]_vars

(***************************************************************************)
(* C35: power survives merges and splits.  merge_clusters on two nodes of  *)
(* distinct clusters keep and other leaves keep powered iff keep or other  *)
(* was, moves every wire and face of other to keep, and puts other on the  *)
(* free-list; split_clusters gives the cluster it splits off the power of  *)
(* the cluster it came from.  So no placement or deletion turns the        *)
(* cluster of a wire or face from powered to unpowered: only a tick does.  *)
(***************************************************************************)
\* `after` is `before` with the cluster `other` merged into `keep`
Merged(before, after, keep, other) ==
    /\ ~after.panicked
    /\ is_powered(after.simulation, keep)
            = (is_powered(before.simulation, keep) \/ is_powered(before.simulation, other))
    /\ Labelled(after) = {<<l[1], IF l[2] = other THEN keep ELSE l[2]>> : l \in Labelled(before)}
    /\ other \in SeqToSet(after.simulation.free_clusters)

MergeKeepsPower ==
    \A into \in Nodes : \A from \in Nodes :
        cluster_id(Self, into) # cluster_id(Self, from) =>
            Merged(Self, merge_clusters(Self, into, from),
                   cluster_id(Self, into), cluster_id(Self, from))

\* `after` is `before` with a cluster split in two, or left as it was
Split(before, after) == ~after.panicked /\ Powered(after) = Powered(before)

SplitKeepsPower ==
    \A keep \in Nodes : \A split \in Nodes :
        cluster_id(Self, keep) = cluster_id(Self, split) =>
            Split(Self, split_clusters(Self, keep, split))

C35_PowerSurvivesMergeAndSplit ==
    /\ MergeKeepsPower
    /\ SplitKeepsPower
    /\ ~last.dimmed

\* a Pin placed on the crossing of two wires has merged the powered cluster
\* at the output of the Flip with the cluster of the wire that crossed it:
\* the four halves are in one cluster, and it is powered
C35_Witness ==
    /\ ~panicked
    /\ last.op = "place_component" /\ last.ret /\ "Pin" \in last.facts
    /\ Cardinality(DOMAIN wires) = 4
    /\ Cardinality({wires[h].cluster_index : h \in DOMAIN wires}) = 1
    /\ \A h \in DOMAIN wires : is_powered(simulation, wires[h].cluster_index)
    /\ \E g \in DOMAIN components :
            /\ get_type(components[g]) = "Flip"
            /\ \A h \in DOMAIN wires :
                    components[g].state.output_cluster_index = wires[h].cluster_index

(***************************************************************************)
(* C36: no internal check fires.  No public mutation with axis-aligned     *)
(* arguments panics: the assert!s of free_cluster (flips and flops of the  *)
(* id empty, manual power zero), the unwrap()s of remove_flip and          *)
(* remove_flop, the assert_eq!s of remove_wire on the slots it clears, the *)
(* assert! of insert_wire on its ends, the Depot and tile lookups, and the *)
(* debug_assert_eq! of cluster_of all pass; and a flood begun at any wire  *)
(* or face of the circuit meets only nodes with the cluster id of the one  *)
(* it began at.                                                            *)
(***************************************************************************)
C36_NoInternalCheckFires ==
    /\ ~panicked
    /\ \A n \in Nodes : ~cluster_of(Self, n).panics

\* three calls, the last a delete_all_at that took a component and the wire
\* on its tile away (a gate, a wire from it, then delete_all_at on the gate
\* gets here): free_cluster ran twice with its checks and the flood of every
\* remaining node met its own cluster only
C36_Witness ==
    /\ ~panicked
    /\ last.op = "delete_all_at"
    /\ nops = 3
    /\ next_handle = 3
    /\ DOMAIN wires = {}
    /\ Cardinality(DOMAIN components) = 1
    /\ Len(simulation.free_clusters) >= 2

(***************************************************************************)
(* C37: the arrays and maps of the InstanceManager agree.  After every Set *)
(* or Remove the manager has applied, to whatever handles and in whatever  *)
(* order, instances, instance_to_handle and handle_to_instance have the    *)
(* same size, handle_to_instance[h] = i exactly when instance_to_handle[i] *)
(* = h, and every index stored is below instances.len(); and when buffer() *)
(* has returned, buffer_capacity is 0 or a power of two that is at least   *)
(* instances.len().                                                        *)
(***************************************************************************)
SameSize(m) ==
    /\ Len(m.instances) = Len(m.instance_to_handle)
    /\ Len(m.instances) = Cardinality(DOMAIN m.handle_to_instance)

Inverse(m) ==
    /\ \A h \in DOMAIN m.handle_to_instance :
            /\ m.handle_to_instance[h] \in 0..(Len(m.instances) - 1)
            /\ m.handle_to_instance[h] < Len(m.instance_to_handle)
            /\ m.instance_to_handle[m.handle_to_instance[h] + 1] = h
    /\ \A i \in 1..Len(m.instance_to_handle) :
            /\ m.instance_to_handle[i] \in DOMAIN m.handle_to_instance
            /\ m.handle_to_instance[m.instance_to_handle[i]] = i - 1

PowerOfTwo(n) == \E k \in 0..n : 2 ^ k = n

C37_ArraysAndMapsAgree ==
    ~panicked =>
        /\ SameSize(manager)
        /\ Inverse(manager)
        /\ last.op = "buffer" =>
                \/ manager.buffer_capacity = 0
                \/ /\ PowerOfTwo(manager.buffer_capacity)
                   /\ manager.buffer_capacity >= len(manager)

\* buffer() has returned with two records in a buffer for four: three
\* handles were set, the buffer grew past three, and one was removed
C37_Witness ==
    /\ ~panicked
    /\ last.op = "buffer"
    /\ len(manager) = 2
    /\ manager.buffer_capacity = 4
    /\ manager.written = manager.instances

(***************************************************************************)
(* C38: a draw passes the count of what is in the buffer.  In every draw   *)
(* of a renderer that reaches its draw call, the instance count passed is  *)
(* the number of records of the packed array that the instance buffer      *)
(* holds for that draw: no Set or Remove waiting in the channel is applied *)
(* between the reading of len() and the upload.                            *)
(***************************************************************************)
C38_DrawCountsTheBuffer ==
    (last.op = "draw" /\ ~panicked /\ is_some(last.ret.instance_buffer)) =>
        last.ret.instance_count = Len(manager.written)

(***************************************************************************)
(* C39: Direction::to and Direction::rotate are inverse to each other.     *)
(* For all directions a, b and every relative r, a.rotate(a.to(b)) = b and *)
(* a.to(a.rotate(r)) = r; rotate(Same) changes nothing, rotate(Opposite)   *)
(* twice changes nothing, and rotate(Right) and rotate(Left) undo each     *)
(* other.  The value a call of to returned is rotated back, and the value  *)
(* a call of rotate returned is measured back.                             *)
(***************************************************************************)
RoundTrips(a, b, r) ==
    /\ rotate(a, to(a, b)) = b
    /\ to(a, rotate(a, r)) = r

RotateLaws(a) ==
    /\ rotate(a, "Same") = a
    /\ rotate(rotate(a, "Opposite"), "Opposite") = a
    /\ rotate(rotate(a, "Right"), "Left") = a
    /\ rotate(rotate(a, "Left"), "Right") = a

C39_ToAndRotateAreInverse ==
    /\ RoundTrips(last.facts.self, last.facts.other, last.facts.relative)
    /\ RotateLaws(last.facts.self)
    /\ last.op = "to" => /\ last.ret \in Relatives
                         /\ rotate(last.facts.self, last.ret) = last.facts.other
    /\ last.op = "rotate" => /\ last.ret \in Directions
                             /\ to(last.facts.self, last.ret) = last.facts.relative

\* South.to(East) has returned Left
C39_Witness ==
    /\ last.op = "to"
    /\ last.facts.self = "South"
    /\ last.facts.other = "East"
    /\ last.ret = "Left"

(***************************************************************************)
(* C40: wires end at components and pass over none.  After every public    *)
(* mutation every wire has a component on the tile of each of its ends and *)
(* none on a tile strictly between them, and on a tile without a component *)
(* the east slot equals the west slot and the north slot the south slot.   *)
(***************************************************************************)
HasComponent(pos) == pos \in DOMAIN tiles /\ is_some(tiles[pos].component)

EndsOnComponents ==
    \A h \in DOMAIN wires : HasComponent(wires[h].start) /\ HasComponent(wires[h].end)

PassesOverNone ==
    \A h \in DOMAIN wires :
        \A pos \in Inside(wires[h].start, wires[h].end) : ~HasComponent(pos)

PassThroughOnly ==
    \A pos \in DOMAIN tiles :
        ~is_some(tiles[pos].component) =>
            /\ tiles[pos].wires.east = tiles[pos].wires.west
            /\ tiles[pos].wires.north = tiles[pos].wires.south

C40_WiresEndAtComponents ==
    ~panicked => EndsOnComponents /\ PassesOverNone /\ PassThroughOnly

\* delete_component has taken the Pin between two wires away and left one
\* wire that passes through its tile
C40_Witness ==
    /\ ~panicked
    /\ last.op = "delete_component"
    /\ next_handle >= 6
    /\ Cardinality(DOMAIN components) = 2
    /\ Cardinality(DOMAIN wires) = 1
    /\ \E h \in DOMAIN wires :
            \E pos \in Inside(wires[h].start, wires[h].end) :
                /\ pos \in DOMAIN tiles
                /\ ~is_some(tiles[pos].component)
                /\ is_some(get(tiles[pos].wires, "East"))
                /\ get(tiles[pos].wires, "East") = get(tiles[pos].wires, "West")

=============================================================================
